---- MODULE Spec2Model ----
(***************************************************************************)
(* MicroSense Mini 3: the scan-session orchestrators, the streaming chat   *)
(* client and the AlphaEye profiler.                                       *)
(*                                                                         *)
(* Spec      the state-machine orchestrator (src/unnamed/part_000) driven  *)
(*           through its user interface: scan button, tab bar, settings.   *)
(* ApiSpec   the same orchestrator with startScan() also callable directly *)
(*           (the start() operation of the state machine, without the      *)
(*           button's disabled flag in front of it).                       *)
(* HistorySpec  the same orchestrator, one scan after another, long enough  *)
(*           for the history to pass its cap.                              *)
(* AvatarSpec  the avatar orchestrator (src/js/ollama.js, from line 230).   *)
(* StreamSpec  one OllamaClient.chat() stream (src/js/ollama.js, 45-97)     *)
(*           over every body and every way of cutting it into chunks.      *)
(* ChatSpec  the chat client with abort(), failing transports and a second *)
(*           stream started before the first has finished.                 *)
(* RequestSpec  the request chat() builds, over conversations of up to     *)
(*           MaxTurns turns, with and without a system prompt.             *)
(* ConversationSpec  sendMessage and testConnection: up to two messages,   *)
(*           each with its stream, and connection probes.                  *)
(* FusionSpec  AlphaEye.compute and AlphaEye.getDominantState              *)
(*           (src/js/avatar.js, 581-713) over the snapshots the engines    *)
(*           can report, and the reopening of the scan from the history.   *)
(*                                                                         *)
(* JavaScript runs one handler at a time: an action is one handler run up  *)
(* to its next await (or its end), and each await is a separate action     *)
(* that resumes the function.                                              *)
(***************************************************************************)
EXTENDS Integers, Sequences, FiniteSets, TLC

\* ---------------------------------------------------------------- bounds
MaxRequests == 2      \* Spec: device requests (startScan, startChatMonitoring) issued in one behaviour
MaxScans == 1         \* Spec: fusion runs in one behaviour
MaxFrames == 1        \* frameCount values counted before detections with a face stop being enumerated
MaxHistoryScans == 11 \* HistorySpec: fusion runs in one behaviour
MaxLines == 3         \* StreamSpec: lines of a response body
MaxTurns == 7         \* RequestSpec: turns of the conversation
MaxPresent == 3       \* FusionSpec: fields present in an enumerated snapshot

\* ------------------------------------------------------ program constants
HistoryCap == 10  \* scanHistory.slice(0, 10)
WindowSize == 6   \* messages.slice(-6)

VARIABLES
  appState,            \* State.*
  btnDisabled,         \* document.getElementById('btnScan').disabled
  loadModels,          \* position of init()/loadFaceModels(): boot, pending, loaded, failed
  modelsLoaded,
  cameraStream,        \* "null", or the owner of the stream the variable refers to
  liveCam,             \* camera streams obtained and not stopped, per owner
  audioStream,         \* TRUE iff the variable refers to a stream
  liveMic,             \* microphone streams obtained and not stopped
  scanTimer,           \* TRUE iff the variable refers to an interval
  activeTimers,        \* countdown intervals set and not cleared
  expired,             \* Date.now() - scanStartTime >= duration
  isScanning,
  frameCount,
  lastProfile,         \* 0 for null, else the timestamp of the profile
  chatMonitorInterval, \* TRUE iff the variable refers to an interval (monitorInterval in ollama.js)
  monIntervals,        \* monitoring intervals set and not cleared
  scanHistory,         \* in-memory history, a sequence of timestamps
  historyStore,        \* localStorage[HISTORY_KEY], a sequence of timestamps
  pendingStart,        \* startScan invocations suspended at each await
  pendingMon,          \* startChatMonitoring invocations suspended at each await
  detecting,           \* detectLoop invocations awaiting the detector
  rafPending,          \* detectLoop callbacks queued with requestAnimationFrame
  navTimeouts,         \* 1 iff a setTimeout callback that clicks the results tab is queued
  activeTab,           \* the tab last clicked (its panel has class 'active'); "none" before a click
  scanSeq,             \* Date.now() of the last fusion, counted in fusions
  requests,            \* device requests issued so far, counted under Spec only
  \* history variables, read by the properties only
  stateTrail,          \* the last step, if it assigned appState: the handler, then the
                       \* values appState had and took, oldest first; for a tick of
                       \* detectLoop, what the detection gave and what was forwarded;
                       \* the name of the handler alone, or << >>, otherwise
  sessionEnd,          \* how the scan session last entered ended: "none" (it runs, or none
                       \* was entered yet), "stopped" (stopScan), "completed" (completeScan)
  okScans,             \* completeScan runs that ended in Results since the history was empty
  tainted,             \* a completeScan run failed since the history was empty
  \* the streaming chat client (OllamaClient), per chat() generator
  abortController,     \* 0 for null, else the stream whose AbortController the client holds
  signalAborted,       \* the signal of the stream's AbortController is aborted
  chatState,           \* where the generator is: idle, created (chat() was called, nothing
                       \* has run), fetching, reading, lines, ended, raised
  chatMessages,        \* the conversation, `chatMessages`
  systemPrompt,        \* the systemPrompt argument of the stream's chat() call
  request,             \* the `messages` of the request body, << >> before the request
  respStatus,          \* resp.status, 0 before fetch has settled with a response
  \* the AlphaEye profiler
  fusePhase,           \* "idle", "analysed" (the engines have reported), "computed", "classified"
  snapshot,            \* the fields the engines reported, in tenths; a field that is not
                       \* in the domain is absent
  alphaProfile,        \* the result of AlphaEye.compute, << >> before it
  dominantState,       \* the result of AlphaEye.getDominantState, "none" before it
  reopenedProfile,     \* lastProfile as the click on the history item rebuilt it, << >>
                       \* before it
  response,            \* the response body the server sends, a sequence of characters
  rest,                \* the part of the body not yet delivered by reader.read()
  buffer,              \* the local `buffer`
  lines,               \* the lines of the current chunk the for loop has not reached yet
  yielded,             \* the tokens yielded so far, in order
  chatError,           \* what the generator raised: the name of the error ("none" for
                       \* nothing) and the status in its message (0 for none)
  \* history variables of the chat client
  endedBy,             \* "none", "done" (completion flag), "eof" (reader reported done)
  abortSeen,           \* -1, or Len(yielded) when abort() was first called after the start
  splitInside,         \* a chunk has ended inside a line, with more of the body to come
  \* the conversation (sendMessage, checkOllamaConnection, the Test button)
  connected,           \* ollamaClient.connected
  lastProbe,           \* what the testConnection call that returned last returned:
                       \* "none" before any, "true", "false"
  sendState            \* where each sendMessage call is: idle (not made), probing,
                       \* streaming, answered, failed, refused (no connection), scan (the
                       \* text asked for a scan)

orchVars == << appState, btnDisabled, loadModels, modelsLoaded, cameraStream, liveCam,
           audioStream, liveMic, scanTimer, activeTimers, expired, isScanning,
           frameCount, lastProfile, chatMonitorInterval, monIntervals, scanHistory,
           historyStore, pendingStart, pendingMon, detecting, rafPending,
           navTimeouts, activeTab, scanSeq, requests, stateTrail, sessionEnd, okScans, tainted >>

reqVars == << chatMessages, systemPrompt, request, respStatus >>

chatVars == << abortController, signalAborted, chatState, response, rest, buffer, lines,
               yielded, chatError, endedBy, abortSeen, splitInside, reqVars >>

fuseVars == << fusePhase, snapshot, alphaProfile, dominantState, reopenedProfile >>

sendVars == << connected, lastProbe, sendState >>

vars == << orchVars, chatVars, fuseVars, sendVars >>

State == {"idle", "loading_models", "ready", "scanning", "analyzing", "results"}

Tabs == {"panelResults", "panelChat", "panelSettings"}

\* The tabs of the avatar orchestrator.
AvatarTabs == {"panelHome", "panelResults", "panelSettings"}

\* What the analysis block of completeScan can do: run through, or throw at a step.
\* "fusionFail": a snapshot call or AlphaEye.compute throws; "entryFail": building
\* the history entry throws; "saveFail": localStorage.setItem throws; "renderFail":
\* showResults throws.
AnalysisOutcomes == {"ok", "fusionFail", "entryFail", "saveFail", "renderFail"}

DetectOutcomes == {"face", "none", "error"}

Min(a, b) == IF a < b THEN a ELSE b

\* ------------------------------------------------------------- helpers
PendingStartTotal == pendingStart.camera + pendingStart.play + pendingStart.mic + pendingStart.micInit

PendingMonTotal == pendingMon.camera + pendingMon.play

CamOrphans == liveCam.scan + liveCam.monitor - (IF cameraStream = "null" THEN 0 ELSE 1)

MicOrphans == liveMic - (IF audioStream THEN 1 ELSE 0)

TimerOrphans == activeTimers - (IF scanTimer THEN 1 ELSE 0)

MonOrphans == monIntervals - (IF chatMonitorInterval THEN 1 ELSE 0)

CaptureLoops == detecting + rafPending

\* updateScanUI(): the button's disabled flag after the call.
UpdateScanUI(state, disabled) ==
  CASE state \in {"loading_models", "analyzing"} -> TRUE
    [] state \in {"ready", "scanning", "results"} -> FALSE
    [] OTHER -> disabled

\* stopCamera(): the live streams after the call.
StopCameraLive(ref, live) ==
  IF ref = "null" THEN live ELSE [live EXCEPT ![ref] = @ - 1]

\* stopMicrophone(): the live streams after the call.
StopMicrophoneLive(ref, live) == IF ref THEN live - 1 ELSE live

\* clearInterval(t); t = null
ClearIntervalActive(ref, active) == IF ref THEN active - 1 ELSE active

\* A saveHistory without the slice: it stores the whole list.
SaveHistoryUncapped(h) == h

\* scanHistory.slice(0, 10)
SaveHistory(h) == SubSeq(h, 1, Min(Len(h), HistoryCap))

\* scanHistory.unshift(entry)
Unshift(h, e) == <<e>> \o h

\* ------------------------------------------------ streaming chat client
\* The chat() generators of a run: a first one, and one started before it finished.
Streams == {1, 2}

\* The characters of a response body. A record is the characters between "{" and
\* "}": "a" and "b" are characters of message.content, "d" is done: true.
ContentChars == {"a", "b"}

RecordChars == ContentChars \cup {"d"}

Whitespace == {" "}

\* str.split('\n'): the pieces of s, `piece` being the one under construction.
RECURSIVE SplitFrom(_, _)
SplitFrom(s, piece) ==
  IF s = << >>
    THEN << piece >>
    ELSE IF Head(s) = "\n"
           THEN << piece >> \o SplitFrom(Tail(s), << >>)
           ELSE SplitFrom(Tail(s), Append(piece, Head(s)))

Split(s) == SplitFrom(s, << >>)

\* line.trim()
RECURSIVE TrimStart(_)
TrimStart(s) ==
  IF s # << >> /\ Head(s) \in Whitespace THEN TrimStart(Tail(s)) ELSE s

RECURSIVE TrimEnd(_)
TrimEnd(s) ==
  IF s # << >> /\ s[Len(s)] \in Whitespace THEN TrimEnd(SubSeq(s, 1, Len(s) - 1)) ELSE s

Trim(s) == TrimEnd(TrimStart(s))

\* JSON.parse(line): whether it returns, and the fields chat() reads.
WellFormed(line) ==
  LET t == Trim(line) IN
  /\ Len(t) >= 2
  /\ t[1] = "{"
  /\ t[Len(t)] = "}"
  /\ \A i \in 2..(Len(t) - 1) : t[i] \in RecordChars

IsContentChar(c) == c \in ContentChars

\* json.message.content, << >> for a missing or empty one
Content(line) == SelectSeq(Trim(line), IsContentChar)

\* json.done
Done(line) == \E i \in 1..Len(Trim(line)) : Trim(line)[i] = "d"

\* What the body of the for loop does with one line: the tokens it yields and
\* whether it returns.
LineTokens(line) ==
  IF Trim(line) # << >> /\ WellFormed(line) /\ Content(line) # << >>
    THEN << Content(line) >> ELSE << >>

LineReturns(line) == Trim(line) # << >> /\ WellFormed(line) /\ Done(line)

\* A decode whose result replaces the buffer instead of being appended to it.
DecodeDropsBuffer(buf, chunk) == chunk

\* buffer += decoder.decode(value)
Decode(buf, chunk) == buf \o chunk

\* The errors chat() can raise, by name and by the status in the message.
ErrorOf(name, status) == [name |-> name, status |-> status]

NoError == ErrorOf("none", 0)

\* The statuses a response can have; resp.ok is true for 200 to 299.
Statuses == {200, 404, 500}

Ok(status) == status >= 200 /\ status <= 299

\* The system prompts chat() is called with: none, or a text.
Prompts == {"", "prompt"}

\* A message of the request or of the conversation; `turn` is the position the turn
\* was pushed at, 0 for the system message.
Message(role, content, turn) == [role |-> role, content |-> content, turn |-> turn]

\* messages.slice(-n)
SliceLast(messages, n) ==
  SubSeq(messages, (IF Len(messages) > n THEN Len(messages) - n ELSE 0) + 1, Len(messages))

\* A request that carries the whole conversation.
BuildRequestUnwindowed(messages, prompt) ==
  (IF prompt # "" THEN << Message("system", prompt, 0) >> ELSE << >>) \o messages

\* allMessages: lines 47-51.
BuildRequest(messages, prompt) ==
  (IF prompt # "" THEN << Message("system", prompt, 0) >> ELSE << >>)
    \o SliceLast(messages, WindowSize)

\* buffer = lines.pop() || ''
Pop(pieces) == pieces[Len(pieces)]

ChatInit ==
  /\ abortController = 0
  /\ signalAborted = [i \in Streams |-> FALSE]
  /\ chatState = [i \in Streams |-> "idle"]
  /\ response = [i \in Streams |-> << >>]
  /\ rest = [i \in Streams |-> << >>]
  /\ buffer = [i \in Streams |-> << >>]
  /\ lines = [i \in Streams |-> << >>]
  /\ yielded = [i \in Streams |-> << >>]
  /\ chatError = [i \in Streams |-> NoError]
  /\ chatMessages = << >>
  /\ systemPrompt = [i \in Streams |-> ""]
  /\ request = [i \in Streams |-> << >>]
  /\ respStatus = [i \in Streams |-> 0]
  /\ endedBy = [i \in Streams |-> "none"]
  /\ abortSeen = [i \in Streams |-> -1]
  /\ splitInside = [i \in Streams |-> FALSE]
  /\ connected = FALSE
  /\ lastProbe = "none"
  /\ sendState = [i \in Streams |-> "idle"]

\* ---------------------------------------------------------------- Init
\* The module has been evaluated (lines 26-27, 104-123); init() has not run yet.
Init ==
  /\ appState = "idle"
  /\ btnDisabled = FALSE
  /\ loadModels = "boot"
  /\ modelsLoaded = FALSE
  /\ cameraStream = "null"
  /\ liveCam = [scan |-> 0, monitor |-> 0]
  /\ audioStream = FALSE
  /\ liveMic = 0
  /\ scanTimer = FALSE
  /\ activeTimers = 0
  /\ expired = FALSE
  /\ isScanning = FALSE
  /\ frameCount = 0
  /\ lastProfile = 0
  /\ chatMonitorInterval = FALSE
  /\ monIntervals = 0
  /\ scanHistory = << >>
  /\ historyStore = << >>
  /\ pendingStart = [camera |-> 0, play |-> 0, mic |-> 0, micInit |-> 0]
  /\ pendingMon = [camera |-> 0, play |-> 0]
  /\ detecting = 0
  /\ rafPending = 0
  /\ navTimeouts = 0
  /\ activeTab = "none"
  /\ scanSeq = 0
  /\ requests = 0
  /\ stateTrail = << >>
  /\ sessionEnd = "none"
  /\ okScans = 0
  /\ tainted = FALSE
  /\ ChatInit
  /\ fusePhase = "idle"
  /\ snapshot = << >>
  /\ alphaProfile = << >>
  /\ dominantState = "none"
  /\ reopenedProfile = << >>

loadVars == << loadModels, modelsLoaded >>
camVars == << cameraStream, liveCam >>
micVars == << audioStream, liveMic >>
timerVars == << scanTimer, activeTimers, expired >>
monVars == << chatMonitorInterval, monIntervals >>
histVars == << lastProfile, scanHistory, historyStore, scanSeq, okScans, tainted >>
loopVars == << detecting, rafPending >>
uiVars == << appState, btnDisabled >>
navVars == << navTimeouts, activeTab >>

\* ------------------------------------------------------- initialization
\* init() up to the first await of loadFaceModels(): the handlers are registered,
\* the state is LOADING_MODELS and updateScanUI() has disabled the button.
InitApp ==
  /\ loadModels = "boot"
  /\ loadModels' = "pending"
  /\ appState' = "loading_models"
  /\ btnDisabled' = UpdateScanUI("loading_models", btnDisabled)
  /\ stateTrail' = << "init", appState, "loading_models" >>
  /\ UNCHANGED << modelsLoaded, camVars, micVars, timerVars, isScanning, frameCount,
                  monVars, histVars, sessionEnd, pendingStart, pendingMon, loopVars, navVars >>

\* loadFaceModels() after its awaits: the three models loaded, or one load threw.
LoadFaceModelsDone(ok) ==
  /\ loadModels = "pending"
  /\ IF ok
       THEN /\ loadModels' = "loaded"
            /\ modelsLoaded' = TRUE
            /\ appState' = "ready"
            /\ btnDisabled' = UpdateScanUI("ready", btnDisabled)
            /\ stateTrail' = << "loadFaceModels", appState, "ready" >>
       ELSE /\ loadModels' = "failed"
            /\ modelsLoaded' = modelsLoaded
            /\ appState' = "idle"
            /\ btnDisabled' = btnDisabled
            /\ stateTrail' = << "loadFaceModels", appState, "idle" >>
  /\ UNCHANGED << camVars, micVars, timerVars, isScanning, frameCount,
                  monVars, histVars, sessionEnd, pendingStart, pendingMon, loopVars, navVars >>

\* ------------------------------------------------------------ scan flow
\* A stopScan that clears the countdown and sets the state, but leaves camera and
\* microphone running.
StopScanKeepsDevices(caller) ==
  /\ isScanning' = FALSE
  /\ activeTimers' = ClearIntervalActive(scanTimer, activeTimers)
  /\ scanTimer' = FALSE
  /\ appState' = "ready"
  /\ btnDisabled' = UpdateScanUI("ready", btnDisabled)
  /\ stateTrail' = << caller, appState, "ready" >>
  /\ sessionEnd' = "stopped"
  /\ UNCHANGED << loadVars, camVars, micVars, expired, frameCount, monVars, histVars,
                  pendingStart, pendingMon, loopVars, navVars >>

\* stopScan(), called by `caller`
StopScan(caller) ==
  /\ isScanning' = FALSE
  /\ activeTimers' = ClearIntervalActive(scanTimer, activeTimers)
  /\ scanTimer' = FALSE
  /\ appState' = "ready"
  /\ btnDisabled' = UpdateScanUI("ready", btnDisabled)
  /\ liveCam' = StopCameraLive(cameraStream, liveCam)
  /\ cameraStream' = "null"
  /\ liveMic' = StopMicrophoneLive(audioStream, liveMic)
  /\ audioStream' = FALSE
  /\ stateTrail' = << caller, appState, "ready" >>
  /\ sessionEnd' = "stopped"
  /\ UNCHANGED << loadVars, expired, frameCount, monVars, histVars, pendingStart,
                  pendingMon, loopVars, navVars >>

\* startScan() up to its first await: the toggle, or the call of startCamera(),
\* which requests a stream whatever cameraStream holds.
StartScan ==
  IF appState = "scanning"
    THEN StopScan("startScan")
    ELSE /\ pendingStart' = [pendingStart EXCEPT !.camera = @ + 1]
         /\ stateTrail' = << >>
         /\ UNCHANGED << uiVars, loadVars, camVars, micVars, timerVars, isScanning,
                         frameCount, monVars, histVars, sessionEnd, pendingMon, loopVars, navVars >>

\* The click handler of btnScan. A disabled button dispatches no click.
BtnScanClick ==
  /\ loadModels # "boot"
  /\ ~btnDisabled
  /\ IF appState = "scanning"
       THEN StopScan("btnScan")
       ELSE StartScan

\* startScan() called without the button in front of it.
StartScanCall ==
  /\ loadModels # "boot"
  /\ StartScan

\* startCamera() of a startScan: getUserMedia settles.
ScanCameraResolve(granted) ==
  /\ pendingStart.camera > 0
  /\ IF granted
       THEN /\ cameraStream' = "scan"
            /\ liveCam' = [liveCam EXCEPT !.scan = @ + 1]
            /\ pendingStart' = [pendingStart EXCEPT !.camera = @ - 1, !.play = @ + 1]
       ELSE /\ pendingStart' = [pendingStart EXCEPT !.camera = @ - 1]
            /\ UNCHANGED camVars
  /\ stateTrail' = << >>
  /\ UNCHANGED << uiVars, loadVars, micVars, timerVars, isScanning, frameCount,
                  monVars, histVars, sessionEnd, pendingMon, loopVars, navVars >>

\* startCamera() of a startScan: video.play() settles. On success startScan goes on
\* to startMicrophone() and its getUserMedia; on failure startCamera returns false
\* and startScan returns, with cameraStream left as set.
ScanPlayResolve(ok) ==
  /\ pendingStart.play > 0
  /\ pendingStart' = IF ok THEN [pendingStart EXCEPT !.play = @ - 1, !.mic = @ + 1]
                           ELSE [pendingStart EXCEPT !.play = @ - 1]
  /\ stateTrail' = << >>
  /\ UNCHANGED << uiVars, loadVars, camVars, micVars, timerVars, isScanning, frameCount,
                  monVars, histVars, sessionEnd, pendingMon, loopVars, navVars >>

\* startScan() after `await startMicrophone()`, to its end (lines 257-283).
StartScanFinish ==
  /\ appState' = "scanning"
  /\ isScanning' = TRUE
  /\ frameCount' = 0
  /\ expired' = FALSE
  /\ btnDisabled' = UpdateScanUI("scanning", btnDisabled)
  /\ detecting' = detecting + 1
  /\ scanTimer' = TRUE
  /\ activeTimers' = activeTimers + 1
  /\ stateTrail' = << "startScan", appState, "scanning" >>
  /\ sessionEnd' = "none"
  /\ UNCHANGED << loadVars, camVars, monVars, histVars, pendingMon, rafPending, navVars >>

\* A startScan that returns when startMicrophone() reports a denied microphone.
ScanMicResolveAborts(granted) ==
  /\ pendingStart.mic > 0
  /\ pendingStart' = IF granted
                       THEN [pendingStart EXCEPT !.mic = @ - 1, !.micInit = @ + 1]
                       ELSE [pendingStart EXCEPT !.mic = @ - 1]
  /\ audioStream' = (granted \/ audioStream)
  /\ liveMic' = IF granted THEN liveMic + 1 ELSE liveMic
  /\ stateTrail' = << >>
  /\ UNCHANGED << uiVars, loadVars, camVars, timerVars, isScanning, frameCount,
                  monVars, histVars, sessionEnd, pendingMon, loopVars, navVars >>

\* startMicrophone(): getUserMedia settles. Denied: it returns false and startScan
\* runs to its end. Granted: audioStream is set and initAudioContext is awaited.
ScanMicResolve(granted) ==
  /\ pendingStart.mic > 0
  /\ IF granted
       THEN /\ audioStream' = TRUE
            /\ liveMic' = liveMic + 1
            /\ pendingStart' = [pendingStart EXCEPT !.mic = @ - 1, !.micInit = @ + 1]
            /\ stateTrail' = << >>
            /\ UNCHANGED << uiVars, loadVars, camVars, timerVars, isScanning, frameCount,
                            monVars, histVars, sessionEnd, pendingMon, loopVars, navVars >>
       ELSE /\ pendingStart' = [pendingStart EXCEPT !.mic = @ - 1]
            /\ UNCHANGED micVars
            /\ StartScanFinish

\* startMicrophone(): initAudioContext settles, either way startScan runs to its end.
ScanMicInitResolve(ok) ==
  /\ pendingStart.micInit > 0
  /\ ok \in BOOLEAN
  /\ pendingStart' = [pendingStart EXCEPT !.micInit = @ - 1]
  /\ UNCHANGED micVars
  /\ StartScanFinish

\* completeScan(): no await inside, so it runs to its end in one step.
CompleteScan(outcome) ==
  LET fused   == outcome # "fusionFail"
      entered == outcome \in {"ok", "saveFail", "renderFail"}
      saved   == outcome \in {"ok", "renderFail"}
      profile == scanSeq + 1
      history == IF entered THEN Unshift(scanHistory, profile) ELSE scanHistory
  IN
  /\ isScanning' = FALSE
  /\ activeTimers' = ClearIntervalActive(scanTimer, activeTimers)
  /\ scanTimer' = FALSE
  /\ scanSeq' = IF fused THEN profile ELSE scanSeq
  /\ lastProfile' = IF fused THEN profile ELSE lastProfile
  /\ scanHistory' = history
  /\ historyStore' = IF saved THEN SaveHistory(history) ELSE historyStore
  /\ appState' = IF outcome = "ok" THEN "results" ELSE "ready"
  /\ stateTrail' = CASE outcome = "ok" -> << "completeScan", appState, "analyzing", "results" >>
                     [] outcome = "renderFail" ->
                          << "completeScan", appState, "analyzing", "results", "ready" >>
                     [] OTHER -> << "completeScan", appState, "analyzing", "ready" >>
  /\ btnDisabled' = UpdateScanUI(appState', UpdateScanUI("analyzing", btnDisabled))
  /\ navTimeouts' = IF outcome = "ok" THEN 1 ELSE navTimeouts
  /\ UNCHANGED activeTab
  /\ liveCam' = StopCameraLive(cameraStream, liveCam)
  /\ cameraStream' = "null"
  /\ liveMic' = StopMicrophoneLive(audioStream, liveMic)
  /\ audioStream' = FALSE
  /\ okScans' = IF outcome = "ok" THEN okScans + 1 ELSE okScans
  /\ tainted' = (tainted \/ outcome # "ok")
  /\ sessionEnd' = "completed"
  /\ UNCHANGED << loadVars, expired, frameCount, monVars, pendingStart, pendingMon, loopVars >>

\* The scan duration passes: from now on `remaining <= 0` in every countdown tick.
TimePasses ==
  /\ activeTimers > 0
  /\ ~expired
  /\ expired' = TRUE
  /\ UNCHANGED << uiVars, loadVars, camVars, micVars, scanTimer, activeTimers, isScanning,
                  frameCount, monVars, histVars, sessionEnd, pendingStart, pendingMon, loopVars,
                  navVars, stateTrail >>

\* A tick of a countdown interval (the one scanTimer refers to or an orphaned one)
\* with remaining <= 0. Earlier ticks only redraw the ring.
TimerTick(outcome, maxScans) ==
  /\ activeTimers > 0
  /\ expired
  /\ scanSeq < maxScans
  /\ CompleteScan(outcome)

\* What detectLoop has in `detections`: a face, or none, which is also what a
\* detector that failed leaves it with (lines 359-362, 392-394).
Detected(outcome) == IF outcome = "face" THEN "face" ELSE "none"

\* What detectLoop hands to the engines: the frame, when a face was detected, and
\* the audio frame with it when there is a microphone stream (lines 367-378).
Forwarded(outcome, audio) ==
  IF outcome # "face" THEN "nothing"
  ELSE IF audio THEN "frame, audio" ELSE "frame"

\* A detectLoop that asks for the next frame only after a frame with a face.
DetectResolveStopsOnMiss(outcome) ==
  /\ detecting > 0
  /\ outcome = "face" => frameCount < MaxFrames
  /\ frameCount' = IF outcome = "face" THEN frameCount + 1 ELSE frameCount
  /\ detecting' = detecting - 1
  /\ rafPending' = IF isScanning /\ outcome = "face" THEN rafPending + 1 ELSE rafPending
  /\ stateTrail' = << Detected(outcome), Forwarded(outcome, audioStream) >>
  /\ UNCHANGED << uiVars, loadVars, camVars, micVars, timerVars, isScanning, monVars,
                  histVars, sessionEnd, pendingStart, pendingMon, navVars >>

\* --------------------------------------------------------- detection loop
\* detectLoop() after `await detectAllFaces(...)`: lines 364-398.
DetectResolve(outcome) ==
  /\ detecting > 0
  /\ outcome = "face" => frameCount < MaxFrames
  /\ frameCount' = IF outcome = "face" THEN frameCount + 1 ELSE frameCount
  /\ detecting' = detecting - 1
  /\ rafPending' = IF isScanning THEN rafPending + 1 ELSE rafPending
  /\ stateTrail' = << Detected(outcome), Forwarded(outcome, audioStream) >>
  /\ UNCHANGED << uiVars, loadVars, camVars, micVars, timerVars, isScanning, monVars,
                  histVars, sessionEnd, pendingStart, pendingMon, navVars >>

\* The requestAnimationFrame callback: detectLoop() up to its await (lines 351-362).
RafFire ==
  /\ rafPending > 0
  /\ rafPending' = rafPending - 1
  /\ detecting' = IF isScanning THEN detecting + 1 ELSE detecting
  /\ stateTrail' = << >>
  /\ UNCHANGED << uiVars, loadVars, camVars, micVars, timerVars, isScanning, frameCount,
                  monVars, histVars, sessionEnd, pendingStart, pendingMon, navVars >>

\* ----------------------------------------------- chat monitoring, tab bar
\* startChatMonitoring() up to the await inside startCamera().
StartChatMonitoring ==
  /\ IF chatMonitorInterval
       THEN UNCHANGED pendingMon
       ELSE /\ pendingMon' = [pendingMon EXCEPT !.camera = @ + 1]
  /\ UNCHANGED << camVars, monVars >>

\* stopChatMonitoring()
StopChatMonitoring ==
  /\ monIntervals' = ClearIntervalActive(chatMonitorInterval, monIntervals)
  /\ chatMonitorInterval' = FALSE
  /\ liveCam' = StopCameraLive(cameraStream, liveCam)
  /\ cameraStream' = "null"
  /\ UNCHANGED pendingMon

\* The click handler of a tab (initNav, lines 1003-1026).
TabClick(tab) ==
  /\ activeTab' = tab
  /\ IF tab = "panelChat" /\ lastProfile # 0 THEN StartChatMonitoring ELSE StopChatMonitoring
  /\ stateTrail' = << >>
  /\ UNCHANGED << uiVars, loadVars, micVars, timerVars, isScanning, frameCount, histVars, sessionEnd,
                  pendingStart, loopVars >>

\* The user clicks a tab.
NavClick(tab) ==
  /\ loadModels # "boot"
  /\ TabClick(tab)
  /\ UNCHANGED navTimeouts

\* The setTimeout callback of completeScan clicks the results tab.
NavTimeoutFire ==
  /\ navTimeouts > 0
  /\ navTimeouts' = 0
  /\ TabClick("panelResults")

\* startCamera() of startChatMonitoring: getUserMedia settles.
MonCameraResolve(granted) ==
  /\ pendingMon.camera > 0
  /\ IF granted
       THEN /\ cameraStream' = "monitor"
            /\ liveCam' = [liveCam EXCEPT !.monitor = @ + 1]
            /\ pendingMon' = [pendingMon EXCEPT !.camera = @ - 1, !.play = @ + 1]
       ELSE /\ pendingMon' = [pendingMon EXCEPT !.camera = @ - 1]
            /\ UNCHANGED camVars
  /\ stateTrail' = << >>
  /\ UNCHANGED << uiVars, loadVars, micVars, timerVars, isScanning, frameCount,
                  monVars, histVars, sessionEnd, pendingStart, loopVars, navVars >>

\* startCamera() of startChatMonitoring: video.play() settles, and on success the
\* then-callback sets the monitoring interval.
MonPlayResolve(ok) ==
  /\ pendingMon.play > 0
  /\ pendingMon' = [pendingMon EXCEPT !.play = @ - 1]
  /\ chatMonitorInterval' = (ok \/ chatMonitorInterval)
  /\ monIntervals' = IF ok THEN monIntervals + 1 ELSE monIntervals
  /\ stateTrail' = << >>
  /\ UNCHANGED << uiVars, loadVars, camVars, micVars, timerVars, isScanning, frameCount,
                  histVars, sessionEnd, pendingStart, loopVars, navVars >>

\* --------------------------------------------------------------- settings
\* The click handler of 'resetAll', confirmed.
ResetAll ==
  /\ loadModels # "boot"
  /\ scanHistory' = << >>
  /\ historyStore' = << >>
  /\ okScans' = 0
  /\ tainted' = FALSE
  /\ stateTrail' = << >>
  /\ UNCHANGED << uiVars, loadVars, camVars, micVars, timerVars, isScanning, frameCount,
                  lastProfile, scanSeq, sessionEnd, monVars, pendingStart, pendingMon,
                  loopVars, navVars >>

\* ----------------------------------------------------------- specification
\* A step that issues a device request counts it, within the bound.
Counted ==
  LET startsAfter == pendingStart'.camera + pendingStart'.play + pendingStart'.mic
                       + pendingStart'.micInit
      monsAfter   == pendingMon'.camera + pendingMon'.play
  IN
  /\ requests' = requests + (IF startsAfter > PendingStartTotal \/ monsAfter > PendingMonTotal
                               THEN 1 ELSE 0)
  /\ requests' <= MaxRequests

\* The orchestrator under every interleaving of user input, timers and settling
\* promises, for MaxRequests device requests and MaxScans fusions.
Next ==
  \/ InitApp /\ Counted /\ UNCHANGED << chatVars, fuseVars, sendVars >>
  \/ \E ok \in BOOLEAN : LoadFaceModelsDone(ok) /\ Counted /\ UNCHANGED << chatVars, fuseVars, sendVars >>
  \/ BtnScanClick /\ Counted /\ UNCHANGED << chatVars, fuseVars, sendVars >>
  \/ \E granted \in BOOLEAN : ScanCameraResolve(granted) /\ Counted /\ UNCHANGED << chatVars, fuseVars, sendVars >>
  \/ \E ok \in BOOLEAN : ScanPlayResolve(ok) /\ Counted /\ UNCHANGED << chatVars, fuseVars, sendVars >>
  \/ \E granted \in BOOLEAN : ScanMicResolve(granted) /\ Counted /\ UNCHANGED << chatVars, fuseVars, sendVars >>
  \/ \E ok \in BOOLEAN : ScanMicInitResolve(ok) /\ Counted /\ UNCHANGED << chatVars, fuseVars, sendVars >>
  \/ TimePasses /\ Counted /\ UNCHANGED << chatVars, fuseVars, sendVars >>
  \/ \E outcome \in AnalysisOutcomes : TimerTick(outcome, MaxScans) /\ Counted /\ UNCHANGED << chatVars, fuseVars, sendVars >>
  \/ \E outcome \in DetectOutcomes : DetectResolve(outcome) /\ Counted /\ UNCHANGED << chatVars, fuseVars, sendVars >>
  \/ RafFire /\ Counted /\ UNCHANGED << chatVars, fuseVars, sendVars >>
  \/ \E tab \in Tabs : NavClick(tab) /\ Counted /\ UNCHANGED << chatVars, fuseVars, sendVars >>
  \/ NavTimeoutFire /\ Counted /\ UNCHANGED << chatVars, fuseVars, sendVars >>
  \/ \E granted \in BOOLEAN : MonCameraResolve(granted) /\ Counted /\ UNCHANGED << chatVars, fuseVars, sendVars >>
  \/ \E ok \in BOOLEAN : MonPlayResolve(ok) /\ Counted /\ UNCHANGED << chatVars, fuseVars, sendVars >>
  \/ ResetAll /\ Counted /\ UNCHANGED << chatVars, fuseVars, sendVars >>

Spec == Init /\ [][Next]_vars

ApiNext ==
  \/ Next
  \/ StartScanCall /\ Counted /\ UNCHANGED << chatVars, fuseVars, sendVars >>

ApiSpec == Init /\ [][ApiNext]_vars

\* One scan after another, for MaxHistoryScans fusions: the user presses the scan
\* button only when no start is in flight and the previous capture loop has ended,
\* and leaves the tab bar alone.
SeqBtnScanClick ==
  /\ PendingStartTotal = 0
  /\ CaptureLoops = 0 \/ appState = "scanning"
  /\ BtnScanClick

HistoryNext ==
  \/ InitApp /\ UNCHANGED << requests, chatVars, fuseVars, sendVars >>
  \/ LoadFaceModelsDone(TRUE) /\ UNCHANGED << requests, chatVars, fuseVars, sendVars >>
  \/ SeqBtnScanClick /\ UNCHANGED << requests, chatVars, fuseVars, sendVars >>
  \/ \E granted \in BOOLEAN : ScanCameraResolve(granted) /\ UNCHANGED << requests, chatVars, fuseVars, sendVars >>
  \/ ScanPlayResolve(TRUE) /\ UNCHANGED << requests, chatVars, fuseVars, sendVars >>
  \/ \E granted \in BOOLEAN : ScanMicResolve(granted) /\ UNCHANGED << requests, chatVars, fuseVars, sendVars >>
  \/ ScanMicInitResolve(TRUE) /\ UNCHANGED << requests, chatVars, fuseVars, sendVars >>
  \/ TimePasses /\ UNCHANGED << requests, chatVars, fuseVars, sendVars >>
  \/ \E outcome \in {"ok", "fusionFail"} : TimerTick(outcome, MaxHistoryScans) /\ UNCHANGED << requests, chatVars, fuseVars, sendVars >>
  \/ \E outcome \in {"face", "none"} : DetectResolve(outcome) /\ UNCHANGED << requests, chatVars, fuseVars, sendVars >>
  \/ RafFire /\ UNCHANGED << requests, chatVars, fuseVars, sendVars >>
  \/ NavTimeoutFire /\ UNCHANGED << requests, chatVars, fuseVars, sendVars >>
  \/ ResetAll /\ UNCHANGED << requests, chatVars, fuseVars, sendVars >>

HistorySpec == Init /\ [][HistoryNext]_vars

\* ================================================= the avatar orchestrator
\* src/js/ollama.js keeps the same variables (monitorInterval for
\* chatMonitorInterval) and no appState. Where its code is the same as the
\* state-machine orchestrator's, the action above is used: ScanCameraResolve,
\* ScanPlayResolve, MonCameraResolve, MonPlayResolve, StopChatMonitoring,
\* TimePasses, DetectResolve, RafFire, ResetAll.

\* init() up to the first await of loadFaceModels().
AvatarInit ==
  /\ loadModels = "boot"
  /\ loadModels' = "pending"
  /\ UNCHANGED << uiVars, modelsLoaded, camVars, micVars, timerVars, isScanning, frameCount,
                  monVars, histVars, sessionEnd, pendingStart, pendingMon, loopVars,
                  navVars, stateTrail >>

\* loadFaceModels() after its awaits.
AvatarLoadFaceModelsDone(ok) ==
  /\ loadModels = "pending"
  /\ loadModels' = IF ok THEN "loaded" ELSE "failed"
  /\ modelsLoaded' = ok
  /\ UNCHANGED << uiVars, camVars, micVars, timerVars, isScanning, frameCount,
                  monVars, histVars, sessionEnd, pendingStart, pendingMon, loopVars,
                  navVars, stateTrail >>

\* triggerScan() up to its first await, called by the rescan button, by the greeting
\* or by a chat message that asks for a scan. startCamera() returns at once when
\* cameraStream is set, and triggerScan goes on to startMicrophone().
TriggerScan ==
  /\ loadModels # "boot"
  /\ IF isScanning \/ ~modelsLoaded
       THEN UNCHANGED pendingStart
       ELSE IF cameraStream # "null"
              THEN pendingStart' = [pendingStart EXCEPT !.mic = @ + 1]
              ELSE pendingStart' = [pendingStart EXCEPT !.camera = @ + 1]
  /\ stateTrail' = << "triggerScan" >>
  /\ UNCHANGED << uiVars, loadVars, camVars, micVars, timerVars, isScanning, frameCount,
                  monVars, histVars, sessionEnd, pendingMon, loopVars, navVars >>

\* triggerScan() after `await startMicrophone()`, to its end (lines 538-572).
TriggerScanFinish ==
  /\ isScanning' = TRUE
  /\ frameCount' = 0
  /\ expired' = FALSE
  /\ detecting' = detecting + 1
  /\ scanTimer' = TRUE
  /\ activeTimers' = activeTimers + 1
  /\ stateTrail' = << "triggerScanFinish" >>
  /\ sessionEnd' = "none"
  /\ UNCHANGED << uiVars, loadVars, camVars, monVars, histVars, pendingMon, rafPending,
                  navVars >>

\* startMicrophone() of a triggerScan: getUserMedia settles.
AvatarMicResolve(granted) ==
  /\ pendingStart.mic > 0
  /\ IF granted
       THEN /\ audioStream' = TRUE
            /\ liveMic' = liveMic + 1
            /\ pendingStart' = [pendingStart EXCEPT !.mic = @ - 1, !.micInit = @ + 1]
            /\ stateTrail' = << >>
            /\ UNCHANGED << uiVars, loadVars, camVars, timerVars, isScanning, frameCount,
                            monVars, histVars, sessionEnd, pendingMon, loopVars, navVars >>
       ELSE /\ pendingStart' = [pendingStart EXCEPT !.mic = @ - 1]
            /\ UNCHANGED micVars
            /\ TriggerScanFinish

\* startMicrophone() of a triggerScan: initAudioContext settles.
AvatarMicInitResolve(ok) ==
  /\ pendingStart.micInit > 0
  /\ ok \in BOOLEAN
  /\ pendingStart' = [pendingStart EXCEPT !.micInit = @ - 1]
  /\ UNCHANGED micVars
  /\ TriggerScanFinish

\* startMonitoring() with its then-callback when startCamera() returns at once:
\* the values of << monitorInterval, monIntervals, pendingMon >> after the call.
StartMonitoring(interval, intervals, pending, camera) ==
  IF interval
    THEN << interval, intervals, pending >>
    ELSE IF camera # "null"
           THEN << TRUE, intervals + 1, pending >>
           ELSE << FALSE, intervals, [pending EXCEPT !.camera = @ + 1] >>

\* completeScan(): no await inside. On success it calls startMonitoring() while
\* cameraStream is still set, then stops camera and microphone; the then-callback
\* of startMonitoring runs once completeScan has returned.
AvatarCompleteScan(outcome) ==
  LET fused   == outcome # "fusionFail"
      entered == outcome \in {"ok", "saveFail", "renderFail"}
      saved   == outcome \in {"ok", "renderFail"}
      profile == scanSeq + 1
      history == IF entered THEN Unshift(scanHistory, profile) ELSE scanHistory
      mon     == IF outcome = "ok"
                   THEN StartMonitoring(chatMonitorInterval, monIntervals, pendingMon, cameraStream)
                   ELSE << chatMonitorInterval, monIntervals, pendingMon >>
  IN
  /\ isScanning' = FALSE
  /\ activeTimers' = ClearIntervalActive(scanTimer, activeTimers)
  /\ scanTimer' = FALSE
  /\ scanSeq' = IF fused THEN profile ELSE scanSeq
  /\ lastProfile' = IF fused THEN profile ELSE lastProfile
  /\ scanHistory' = history
  /\ historyStore' = IF saved THEN SaveHistory(history) ELSE historyStore
  /\ chatMonitorInterval' = mon[1]
  /\ monIntervals' = mon[2]
  /\ pendingMon' = mon[3]
  /\ liveCam' = StopCameraLive(cameraStream, liveCam)
  /\ cameraStream' = "null"
  /\ liveMic' = StopMicrophoneLive(audioStream, liveMic)
  /\ audioStream' = FALSE
  /\ okScans' = IF outcome = "ok" THEN okScans + 1 ELSE okScans
  /\ tainted' = (tainted \/ outcome # "ok")
  /\ sessionEnd' = "completed"
  /\ stateTrail' = << "completeScan", outcome >>
  /\ UNCHANGED << uiVars, loadVars, expired, frameCount, pendingStart, loopVars, navVars >>

\* A tick of a countdown interval with remaining <= 0.
AvatarTimerTick(outcome) ==
  /\ activeTimers > 0
  /\ expired
  /\ scanSeq < MaxScans
  /\ AvatarCompleteScan(outcome)

\* The click handler of a tab (initNav, lines 908-935).
AvatarTabClick(tab) ==
  LET mon == StartMonitoring(chatMonitorInterval, monIntervals, pendingMon, cameraStream)
  IN
  /\ loadModels # "boot"
  /\ activeTab' = tab
  /\ IF tab = "panelHome"
       THEN IF lastProfile # 0
              THEN /\ chatMonitorInterval' = mon[1]
                   /\ monIntervals' = mon[2]
                   /\ pendingMon' = mon[3]
                   /\ UNCHANGED camVars
              ELSE UNCHANGED << monVars, pendingMon, camVars >>
       ELSE StopChatMonitoring
  /\ stateTrail' = << "tabClick", tab >>
  /\ UNCHANGED << uiVars, loadVars, micVars, timerVars, isScanning, frameCount, histVars,
                  sessionEnd, pendingStart, loopVars, navTimeouts >>

AvatarNext ==
  \/ AvatarInit /\ Counted /\ UNCHANGED << chatVars, fuseVars, sendVars >>
  \/ \E ok \in BOOLEAN : AvatarLoadFaceModelsDone(ok) /\ Counted /\ UNCHANGED << chatVars, fuseVars, sendVars >>
  \/ TriggerScan /\ Counted /\ UNCHANGED << chatVars, fuseVars, sendVars >>
  \/ \E granted \in BOOLEAN : ScanCameraResolve(granted) /\ Counted /\ UNCHANGED << chatVars, fuseVars, sendVars >>
  \/ \E ok \in BOOLEAN : ScanPlayResolve(ok) /\ Counted /\ UNCHANGED << chatVars, fuseVars, sendVars >>
  \/ \E granted \in BOOLEAN : AvatarMicResolve(granted) /\ Counted /\ UNCHANGED << chatVars, fuseVars, sendVars >>
  \/ \E ok \in BOOLEAN : AvatarMicInitResolve(ok) /\ Counted /\ UNCHANGED << chatVars, fuseVars, sendVars >>
  \/ TimePasses /\ Counted /\ UNCHANGED << chatVars, fuseVars, sendVars >>
  \/ \E outcome \in AnalysisOutcomes : AvatarTimerTick(outcome) /\ Counted /\ UNCHANGED << chatVars, fuseVars, sendVars >>
  \/ \E outcome \in DetectOutcomes : DetectResolve(outcome) /\ Counted /\ UNCHANGED << chatVars, fuseVars, sendVars >>
  \/ RafFire /\ Counted /\ UNCHANGED << chatVars, fuseVars, sendVars >>
  \/ \E tab \in AvatarTabs : AvatarTabClick(tab) /\ Counted /\ UNCHANGED << chatVars, fuseVars, sendVars >>
  \/ \E granted \in BOOLEAN : MonCameraResolve(granted) /\ Counted /\ UNCHANGED << chatVars, fuseVars, sendVars >>
  \/ \E ok \in BOOLEAN : MonPlayResolve(ok) /\ Counted /\ UNCHANGED << chatVars, fuseVars, sendVars >>
  \/ ResetAll /\ Counted /\ UNCHANGED << chatVars, fuseVars, sendVars >>

AvatarSpec == Init /\ [][AvatarNext]_vars

\* ================================================ the streaming chat client
\* OllamaClient.chat() and abort() (src/js/ollama.js, lines 45-104). A step is the
\* generator running from one await to the next; the body of the for loop is taken
\* one line per step.

\* The lines a server can send: records with a token, with the completion flag, with
\* both, with neither; a truncated record; an empty and a blank line.
LineKinds ==
  { << "{", "a", "}" >>, << "{", "b", "}" >>, << "{", "d", "}" >>,
    << "{", "a", "d", "}" >>, << "{", "}" >>, << "{", "a" >>, << >>, << " " >> }

RECURSIVE JoinLines(_)
JoinLines(ls) ==
  IF ls = << >> THEN << >> ELSE Head(ls) \o << "\n" >> \o JoinLines(Tail(ls))

\* The body without the "\n" that ends its last line.
Unterminated(body) == SubSeq(body, 1, Len(body) - 1)

\* Every body of up to MaxLines lines, the last line terminated or not.
Responses ==
  UNION { UNION { { JoinLines(ls), Unterminated(JoinLines(ls)) } : ls \in [1..n -> LineKinds] }
          : n \in 0..MaxLines }

\* The bodies of ChatSpec.
ChatResponses ==
  { JoinLines(<< << "{", "a", "}" >>, << "{", "b", "}" >> >>),
    JoinLines(<< << "{", "b", "}" >>, << "{", "a", "d", "}" >>, << "{", "b", "}" >> >>) }

Outstanding == { i \in Streams : chatState[i] \in {"fetching", "reading", "lines"} }

\* chatMessages.push(...) of sendMessage: lines 756 and 794.
PushTurn(role) ==
  /\ Len(chatMessages) < MaxTurns
  /\ chatMessages' = Append(chatMessages, Message(role, "text", Len(chatMessages) + 1))
  /\ UNCHANGED << abortController, signalAborted, chatState, response, rest, buffer, lines,
                  yielded, chatError, endedBy, abortSeen, splitInside, systemPrompt,
                  request, respStatus, fuseVars, sendVars, orchVars >>

\* ollamaClient.chat(chatMessages, systemPrompt): the call makes the generator and
\* runs none of its body (line 788).
CallChat(i, prompts) ==
  /\ chatState[i] = "idle"
  /\ \A j \in Streams : j < i => chatState[j] # "idle"
  /\ chatState' = [chatState EXCEPT ![i] = "created"]
  /\ \E prompt \in prompts : systemPrompt' = [systemPrompt EXCEPT ![i] = prompt]
  /\ UNCHANGED << abortController, signalAborted, response, rest, buffer, lines, yielded,
                  chatError, endedBy, abortSeen, splitInside, chatMessages, request,
                  respStatus, fuseVars, sendVars, orchVars >>

\* The first pull of the for-await: chat() up to `await fetch(...)`, lines 46-66.
StartChat(i, bodies) ==
  /\ chatState[i] = "created"
  /\ request' = [request EXCEPT ![i] = BuildRequest(chatMessages, systemPrompt[i])]
  /\ \E body \in bodies :
       /\ response' = [response EXCEPT ![i] = body]
       /\ rest' = [rest EXCEPT ![i] = body]
  /\ abortController' = i
  /\ chatState' = [chatState EXCEPT ![i] = "fetching"]
  /\ UNCHANGED << signalAborted, buffer, lines, yielded, chatError, endedBy, abortSeen,
                  splitInside, chatMessages, systemPrompt, respStatus, fuseVars, sendVars, orchVars >>

\* A chat() without the `if (!resp.ok)` of lines 68-70: the body is read whatever
\* the status.
FetchResolveIgnoresStatus(i, status) ==
  /\ chatState[i] = "fetching"
  /\ ~signalAborted[i]
  /\ respStatus' = [respStatus EXCEPT ![i] = status]
  /\ chatState' = [chatState EXCEPT ![i] = "reading"]
  /\ UNCHANGED << abortController, signalAborted, response, rest, buffer, lines, yielded,
                  chatError, endedBy, abortSeen, splitInside, chatMessages, systemPrompt,
                  request, fuseVars, sendVars, orchVars >>

\* fetch settles with a response: lines 68-74.
FetchResolve(i, status) ==
  /\ chatState[i] = "fetching"
  /\ ~signalAborted[i]
  /\ respStatus' = [respStatus EXCEPT ![i] = status]
  /\ chatState' = [chatState EXCEPT ![i] = IF Ok(status) THEN "reading" ELSE "raised"]
  /\ chatError' = [chatError EXCEPT ![i] =
                     IF Ok(status) THEN NoError ELSE ErrorOf("Error", status)]
  /\ UNCHANGED << abortController, signalAborted, response, rest, buffer, lines, yielded,
                  endedBy, abortSeen, splitInside, chatMessages, systemPrompt, request,
                  fuseVars, sendVars, orchVars >>

\* fetch or reader.read() rejects: with an AbortError when the signal is aborted,
\* with a network error otherwise. Nothing in chat() catches it.
ChatReject(i) ==
  /\ chatState[i] \in {"fetching", "reading"}
  /\ chatState' = [chatState EXCEPT ![i] = "raised"]
  /\ chatError' = [chatError EXCEPT ![i] =
                     ErrorOf(IF signalAborted[i] THEN "AbortError" ELSE "TypeError", 0)]
  /\ UNCHANGED << abortController, signalAborted, response, rest, buffer, lines, yielded,
                  endedBy, abortSeen, splitInside, reqVars, fuseVars, sendVars, orchVars >>

\* A reader that is read ahead of the consumer: the next chunk is taken while lines
\* of the chunks before it are still waiting to be processed.
ReadChunkAhead(i, k) ==
  LET pieces == Split(Decode(buffer[i], SubSeq(rest[i], 1, k)))
      whole  == SubSeq(pieces, 1, Len(pieces) - 1)
  IN
  /\ chatState[i] \in {"reading", "lines"}
  /\ ~signalAborted[i]
  /\ k \in 1..Len(rest[i])
  /\ rest' = [rest EXCEPT ![i] = SubSeq(@, k + 1, Len(@))]
  /\ buffer' = [buffer EXCEPT ![i] = Pop(pieces)]
  /\ lines' = [lines EXCEPT ![i] = @ \o whole]
  /\ chatState' = [chatState EXCEPT ![i] = IF lines'[i] = << >> THEN "reading" ELSE "lines"]
  /\ splitInside' = [splitInside EXCEPT ![i] = @ \/ (Pop(pieces) # << >> /\ k < Len(rest[i]))]
  /\ UNCHANGED << abortController, signalAborted, response, yielded, chatError, endedBy,
                  abortSeen, reqVars, fuseVars, sendVars, orchVars >>

\* reader.read() delivers the next k characters: lines 77-82.
ReadChunk(i, k) ==
  LET pieces == Split(Decode(buffer[i], SubSeq(rest[i], 1, k)))
      whole  == SubSeq(pieces, 1, Len(pieces) - 1)
  IN
  /\ chatState[i] = "reading"
  /\ ~signalAborted[i]
  /\ k \in 1..Len(rest[i])
  /\ rest' = [rest EXCEPT ![i] = SubSeq(@, k + 1, Len(@))]
  /\ buffer' = [buffer EXCEPT ![i] = Pop(pieces)]
  /\ lines' = [lines EXCEPT ![i] = whole]
  /\ chatState' = [chatState EXCEPT ![i] = IF whole = << >> THEN "reading" ELSE "lines"]
  /\ splitInside' = [splitInside EXCEPT ![i] = @ \/ (Pop(pieces) # << >> /\ k < Len(rest[i]))]
  /\ UNCHANGED << abortController, signalAborted, response, yielded, chatError, endedBy,
                  abortSeen, reqVars, fuseVars, sendVars, orchVars >>

\* reader.read() reports done: line 78.
ReadDone(i) ==
  /\ chatState[i] = "reading"
  /\ ~signalAborted[i]
  /\ rest[i] = << >>
  /\ chatState' = [chatState EXCEPT ![i] = "ended"]
  /\ endedBy' = [endedBy EXCEPT ![i] = "eof"]
  /\ UNCHANGED << abortController, signalAborted, response, rest, buffer, lines, yielded,
                  chatError, abortSeen, splitInside, reqVars, fuseVars, sendVars, orchVars >>

\* A for loop body without `if (json.done) return`.
ProcessLineIgnoresDone(i) ==
  /\ chatState[i] = "lines"
  /\ lines' = [lines EXCEPT ![i] = Tail(@)]
  /\ yielded' = [yielded EXCEPT ![i] = @ \o LineTokens(Head(lines[i]))]
  /\ chatState' = [chatState EXCEPT ![i] = IF Tail(lines[i]) = << >> THEN "reading" ELSE "lines"]
  /\ UNCHANGED << abortController, signalAborted, response, rest, buffer, chatError,
                  endedBy, abortSeen, splitInside, reqVars, fuseVars, sendVars, orchVars >>

\* A for loop body without the try/catch around JSON.parse: a line that does not
\* parse ends chat() with the SyntaxError.
ProcessLineRaisesOnMalformed(i) ==
  LET line == Head(lines[i])
      fails == Trim(line) # << >> /\ ~WellFormed(line) IN
  /\ chatState[i] = "lines"
  /\ lines' = [lines EXCEPT ![i] = Tail(@)]
  /\ yielded' = [yielded EXCEPT ![i] = @ \o LineTokens(line)]
  /\ chatState' = [chatState EXCEPT ![i] =
                     IF fails THEN "raised"
                     ELSE IF LineReturns(line) THEN "ended"
                     ELSE IF Tail(lines[i]) = << >> THEN "reading" ELSE "lines"]
  /\ endedBy' = [endedBy EXCEPT ![i] = IF LineReturns(line) THEN "done" ELSE @]
  /\ UNCHANGED << abortController, signalAborted, response, rest, buffer, chatError,
                  abortSeen, splitInside, reqVars, fuseVars, sendVars, orchVars >>

\* The body of the for loop for the next line: lines 84-95.
ProcessLine(i) ==
  LET line == Head(lines[i]) IN
  /\ chatState[i] = "lines"
  /\ lines' = [lines EXCEPT ![i] = Tail(@)]
  /\ yielded' = [yielded EXCEPT ![i] = @ \o LineTokens(line)]
  /\ chatState' = [chatState EXCEPT ![i] =
                     IF LineReturns(line) THEN "ended"
                     ELSE IF Tail(lines[i]) = << >> THEN "reading" ELSE "lines"]
  /\ endedBy' = [endedBy EXCEPT ![i] = IF LineReturns(line) THEN "done" ELSE @]
  /\ UNCHANGED << abortController, signalAborted, response, rest, buffer, chatError,
                  abortSeen, splitInside, reqVars, fuseVars, sendVars, orchVars >>

\* abort(): lines 99-104.
Abort ==
  /\ \E i \in Streams : chatState[i] # "idle"
  /\ signalAborted' = IF abortController # 0
                        THEN [signalAborted EXCEPT ![abortController] = TRUE]
                        ELSE signalAborted
  /\ abortController' = 0
  /\ abortSeen' = [i \in Streams |->
                     IF i \in Outstanding /\ abortSeen[i] = -1 THEN Len(yielded[i])
                     ELSE abortSeen[i]]
  /\ UNCHANGED << chatState, response, rest, buffer, lines, yielded, chatError, endedBy,
                  splitInside, reqVars, fuseVars, sendVars, orchVars >>

\* One chat() stream over every body and every way of cutting it into chunks.
StreamNext ==
  \/ CallChat(1, {"prompt"})
  \/ StartChat(1, Responses)
  \/ FetchResolve(1, 200)
  \/ \E k \in 1..Len(rest[1]) : ReadChunk(1, k)
  \/ ProcessLine(1)
  \/ ReadDone(1)

StreamSpec == Init /\ [][StreamNext]_vars

\* The client with abort(), failing transports and a second stream.
ChatNext ==
  \/ \E i \in Streams : CallChat(i, {"prompt"})
  \/ \E i \in Streams : StartChat(i, ChatResponses)
  \/ \E i \in Streams, status \in Statuses : FetchResolve(i, status)
  \/ \E i \in Streams : ChatReject(i)
  \/ \E i \in Streams : \E k \in 1..Len(rest[i]) : ReadChunk(i, k)
  \/ \E i \in Streams : ProcessLine(i)
  \/ \E i \in Streams : ReadDone(i)
  \/ Abort

ChatSpec == Init /\ [][ChatNext]_vars

\* The requests chat() builds: conversations of up to MaxTurns turns, with and
\* without a system prompt, each streamed to its end.
RequestNext ==
  \/ \E role \in {"user", "assistant"} : PushTurn(role)
  \/ CallChat(1, Prompts)
  \/ StartChat(1, ChatResponses)
  \/ FetchResolve(1, 200)
  \/ \E k \in 1..Len(rest[1]) : ReadChunk(1, k)
  \/ ProcessLine(1)
  \/ ReadDone(1)

RequestSpec == Init /\ [][RequestNext]_vars

\* ========================================================= the conversation
\* sendMessage (src/js/ollama.js, lines 748-807; src/unnamed/part_000, lines 552-609)
\* and OllamaClient.testConnection (src/js/ollama.js, lines 13-26). Stream i is the
\* chat() call of the i-th sendMessage call; a sendMessage call can be made while
\* an earlier one is suspended.

\* What the fetch of testConnection settles with: a status, or Rejected for a
\* timeout or an endpoint that cannot be reached.
Rejected == 0

ProbeOutcomes == Statuses \cup {Rejected}

\* testConnection, lines 18-25: the flag it leaves and what it returns.
ConnectedAfter(flag, outcome) ==
  IF outcome = Rejected THEN FALSE ELSE IF Ok(outcome) THEN TRUE ELSE flag

ProbeResult(outcome) == outcome # Rejected /\ Ok(outcome)

Returned(result) == IF result THEN "true" ELSE "false"

\* input.value.trim() of a message that does not ask for a scan.
UserText == << "h", "i" >>

\* fullResponse after `fullResponse += token` for each token, in order.
RECURSIVE FullResponse(_)
FullResponse(tokens) ==
  IF tokens = << >> THEN << >> ELSE Head(tokens) \o FullResponse(Tail(tokens))

\* The bodies of ConversationSpec: two tokens, the second with the completion
\* flag; one record that no "\n" ends, which chat() leaves in its buffer.
ConversationResponses ==
  { JoinLines(<< << "{", "b", "}" >>, << "{", "a", "d", "}" >> >>),
    Unterminated(JoinLines(<< << "{", "a", "}" >> >>)) }

\* `for await (const token of ollamaClient.chat(chatMessages, systemPrompt))`: the
\* call and the first pull, which runs chat() up to `await fetch(...)`.
BeginStream(i, messages) ==
  /\ systemPrompt' = [systemPrompt EXCEPT ![i] = "prompt"]
  /\ request' = [request EXCEPT ![i] = BuildRequest(messages, "prompt")]
  /\ \E body \in ConversationResponses :
       /\ response' = [response EXCEPT ![i] = body]
       /\ rest' = [rest EXCEPT ![i] = body]
  /\ abortController' = i
  /\ chatState' = [chatState EXCEPT ![i] = "fetching"]

\* The testConnection call of checkOllamaConnection (line 885) or of the Test
\* button (line 1109) returns. The call changes nothing before its fetch settles,
\* and any number of them can be in flight.
CheckConnection(outcome) ==
  /\ connected' = ConnectedAfter(connected, outcome)
  /\ lastProbe' = Returned(ProbeResult(outcome))
  /\ UNCHANGED << sendState, chatVars, fuseVars, orchVars >>

\* sendMessage up to its first await: lines 748-788. `keyword`: the text asks for a
\* scan (src/js/ollama.js, lines 760-766; the scan it schedules is not followed).
SendMessage(i, keyword) ==
  /\ sendState[i] = "idle"
  /\ \A j \in Streams : j < i => sendState[j] # "idle"
  /\ chatMessages' = Append(chatMessages, Message("user", UserText, Len(chatMessages) + 1))
  /\ IF ~keyword /\ connected
       THEN /\ BeginStream(i, chatMessages')
            /\ sendState' = [sendState EXCEPT ![i] = "streaming"]
       ELSE /\ sendState' = [sendState EXCEPT ![i] = IF keyword THEN "scan" ELSE "probing"]
            /\ UNCHANGED << abortController, chatState, response, rest, systemPrompt, request >>
  /\ UNCHANGED << signalAborted, buffer, lines, yielded, chatError, endedBy, abortSeen,
                  splitInside, respStatus, connected, lastProbe, fuseVars, orchVars >>

\* sendMessage from `await ollamaClient.testConnection()`: lines 770-788.
SendProbeSettle(i, outcome) ==
  /\ sendState[i] = "probing"
  /\ connected' = ConnectedAfter(connected, outcome)
  /\ lastProbe' = Returned(ProbeResult(outcome))
  /\ IF ProbeResult(outcome)
       THEN /\ BeginStream(i, chatMessages)
            /\ sendState' = [sendState EXCEPT ![i] = "streaming"]
       ELSE /\ sendState' = [sendState EXCEPT ![i] = "refused"]
            /\ UNCHANGED << abortController, chatState, response, rest, systemPrompt, request >>
  /\ UNCHANGED << signalAborted, buffer, lines, yielded, chatError, endedBy, abortSeen,
                  splitInside, respStatus, chatMessages, fuseVars, orchVars >>

\* A catch that keeps what was streamed before the failure as an assistant turn.
SendCatchKeepsPartial(i) ==
  /\ sendState[i] = "streaming"
  /\ chatState[i] = "raised"
  /\ chatMessages' = Append(chatMessages,
                            Message("assistant", FullResponse(yielded[i]), Len(chatMessages) + 1))
  /\ sendState' = [sendState EXCEPT ![i] = "failed"]
  /\ UNCHANGED << abortController, signalAborted, chatState, response, rest, buffer, lines,
                  yielded, chatError, endedBy, abortSeen, splitInside, systemPrompt,
                  request, respStatus, connected, lastProbe, fuseVars, orchVars >>

\* sendMessage after the loop has ended: lines 792-798.
SendFinish(i) ==
  /\ sendState[i] = "streaming"
  /\ chatState[i] = "ended"
  /\ chatMessages' = Append(chatMessages,
                            Message("assistant", FullResponse(yielded[i]), Len(chatMessages) + 1))
  /\ sendState' = [sendState EXCEPT ![i] = "answered"]
  /\ UNCHANGED << abortController, signalAborted, chatState, response, rest, buffer, lines,
                  yielded, chatError, endedBy, abortSeen, splitInside, systemPrompt,
                  request, respStatus, connected, lastProbe, fuseVars, orchVars >>

\* sendMessage's catch, chat() having raised: lines 800-806.
SendCatch(i) ==
  /\ sendState[i] = "streaming"
  /\ chatState[i] = "raised"
  /\ sendState' = [sendState EXCEPT ![i] = "failed"]
  /\ UNCHANGED << connected, lastProbe, chatVars, fuseVars, orchVars >>

ConversationNext ==
  \/ \E outcome \in ProbeOutcomes : CheckConnection(outcome)
  \/ \E i \in Streams, keyword \in BOOLEAN : SendMessage(i, keyword)
  \/ \E i \in Streams, outcome \in ProbeOutcomes : SendProbeSettle(i, outcome)
  \/ \E i \in Streams, status \in Statuses : FetchResolve(i, status)
  \/ \E i \in Streams : ChatReject(i)
  \/ \E i \in Streams : \E k \in 1..Len(rest[i]) : ReadChunk(i, k)
  \/ \E i \in Streams : ProcessLine(i)
  \/ \E i \in Streams : ReadDone(i)
  \/ Abort
  \/ \E i \in Streams : SendFinish(i)
  \/ \E i \in Streams : SendCatch(i)

ConversationSpec == Init /\ [][ConversationNext]_vars

\* ==================================================== the AlphaEye profiler
\* AlphaEye.compute and AlphaEye.getDominantState (src/js/avatar.js, lines 581-713),
\* called by completeScan with what the engines report. Numbers the engines report
\* are held in tenths, so that 705 is 70.5; the parameters of the profile are
\* integers. The arithmetic is exact: no value the code rounds lies within the
\* error of a double from a half.

Fields ==
  { "aggression", "stress", "tension", "badIntent", "stability",
    "expressionRange", "psychomotorIndex", "gazeStability", "microTremorScore",
    "truthfulnessIndex" }

\* What a field can hold, in tenths: a negative number, 0, 0.4, 70.5, 80, 150.
RawValues == {-50, 0, 4, 705, 800, 1500}

\* The threat snapshot {aggression: 80, stress: 70, tension: 60, badIntent: 50,
\* stability: 20}, the other engines reporting nothing.
ThreatExample ==
  [f \in {"aggression", "stress", "tension", "badIntent", "stability"} |->
     CASE f = "aggression" -> 800
       [] f = "stress" -> 700
       [] f = "tension" -> 600
       [] f = "badIntent" -> 500
       [] f = "stability" -> 200]

\* The snapshots of FusionSpec: up to MaxPresent fields present, and the example.
Snapshots ==
  UNION { [D -> RawValues] : D \in { D \in SUBSET Fields : Cardinality(D) <= MaxPresent } }
    \cup { ThreatExample }

Max(a, b) == IF a > b THEN a ELSE b

\* Math.round(num / den), den > 0: halves go up.
RoundDiv(num, den) == (2 * num + den) \div (2 * den)

\* A clamp that only rounds.
ClampUnbounded(num, den) == RoundDiv(num, den)

\* AlphaEye.clamp(num / den)
Clamp(num, den) == Max(0, Min(100, RoundDiv(num, den)))

\* `field || d`, in tenths: the default replaces an absent field and a 0.
OrDefault(s, f, d) == IF f \in DOMAIN s /\ s[f] # 0 THEN s[f] ELSE 10 * d

\* Math.floor in the place of Math.round: sqrt(D) / 2 rounded down.
HalfRootFloor(D) ==
  CHOOSE k \in 0..100 :
    /\ 4 * k * k <= D
    /\ D < 4 * (k + 1) * (k + 1)

\* Math.round(Math.sqrt(variance) * 2) of computeEmotionalVariation, for the
\* integers neg: with D = 4 * sum of squares - square of sum, sqrt(variance) * 2 is
\* sqrt(D) / 2, which rounds to k exactly when 2k - 1 <= sqrt(D) < 2k + 1.
HalfRoot(D) ==
  CHOOSE k \in 0..100 :
    /\ k = 0 \/ (2 * k - 1) * (2 * k - 1) <= D
    /\ D < (2 * k + 1) * (2 * k + 1)

SpreadScore(a, b, c, d) ==
  HalfRoot(4 * (a * a + b * b + c * c + d * d) - (a + b + c + d) * (a + b + c + d))

\* computeEmotionalVariation(p)
ComputeEmotionalVariation(p) ==
  LET Labelled(score) ==
        [score |-> Clamp(score, 1),
         label |-> IF score > 30 THEN "Unstable"
                   ELSE IF score > 15 THEN "Moderate" ELSE "Stable"]
  IN Labelled(SpreadScore(p.aggression, p.stress, p.tension, p.neuroticism))

\* computeVitality tabulated: Math.round(sigmoid * 100) is VitalityFloor for
\* raw = -70, and VitalitySteps lists, in tenths, the values of raw at which it
\* goes up by one.
VitalityFloor == -94

VitalitySteps ==
  << -678, -649, -622, -599, -578, -559, -541, -525, -509, -495, -481, -468,
     -456, -445, -433, -423, -413, -403, -393, -384, -375, -367, -358, -350,
     -343, -335, -327, -320, -313, -306, -299, -293, -286, -280, -274, -268,
     -261, -256, -250, -244, -238, -233, -227, -222, -217, -211, -206, -201,
     -196, -191, -186, -181, -176, -171, -167, -162, -157, -153, -148, -143,
     -139, -134, -130, -126, -121, -117, -112, -108, -104, -100, -95, -91,
     -87, -83, -79, -74, -70, -66, -62, -58, -54, -50, -46, -42,
     -38, -34, -30, -26, -22, -18, -14, -10, -6, -2, 3, 7,
     11, 15, 19, 23, 27, 31, 35, 39, 43, 47, 51, 55,
     59, 63, 67, 71, 75, 80, 84, 88, 92, 96, 101, 105,
     109, 113, 118, 122, 127, 131, 135, 140, 144, 149, 154, 158,
     163, 168, 172, 177, 182, 187, 192, 197, 202, 207, 212, 218,
     223, 228, 234, 239, 245, 251, 257, 262, 269, 275, 281, 287,
     294, 300, 307, 314, 321, 328, 336, 344, 351, 359, 368, 376,
     385, 394, 404, 414, 424, 434, 446, 457, 469, 482, 496, 510,
     526, 542, 560, 579, 600, 623, 650, 679, 714, 755, 806, 874,
     978 >>

\* computeVitality(energy, stress, neuroticism); raw in tenths is
\* 10 * energy - (4 * stress + 3 * neuroticism).
ComputeVitality(energy, stress, neuroticism) ==
  LET StepsUpTo(raw) ==
        Cardinality({ i \in DOMAIN VitalitySteps : VitalitySteps[i] <= raw })
  IN VitalityFloor + StepsUpTo(10 * energy - (4 * stress + 3 * neuroticism))

\* computeConcentration(gazeStability, inhibition, stress)
ComputeConcentration(gazeStability, inhibition, stress) ==
  Clamp(5 * gazeStability + 3 * (100 - inhibition) + 2 * (100 - stress), 10)

\* A classifyStateOfMind whose pleasure is rounded down.
ClassifyStateOfMindTruncating(p) ==
  LET Quadrant(stability, pleasure) ==
        [stability |-> stability,
         pleasure |-> pleasure,
         quadrant |-> IF stability >= 50 /\ pleasure >= 50 THEN "Calm & Content"
                      ELSE IF stability < 50 /\ pleasure >= 50 THEN "Excited & Active"
                      ELSE IF stability >= 50 /\ pleasure < 50 THEN "Bored & Low"
                      ELSE "Distressed & Anxious"]
  IN Quadrant(p.balance, (200 - (p.stress + p.tension)) \div 2)

\* classifyStateOfMind(p)
ClassifyStateOfMind(p) ==
  LET Quadrant(stability, pleasure) ==
        [stability |-> stability,
         pleasure |-> pleasure,
         quadrant |-> IF stability >= 50 /\ pleasure >= 50 THEN "Calm & Content"
                      ELSE IF stability < 50 /\ pleasure >= 50 THEN "Excited & Active"
                      ELSE IF stability >= 50 /\ pleasure < 50 THEN "Bored & Low"
                      ELSE "Distressed & Anxious"]
  IN Quadrant(p.balance, RoundDiv(200 - (p.stress + p.tension), 2))

\* AlphaEye.compute, lines 586-598: the values read from the snapshots.
Read(s) ==
  [aggression |-> Clamp(OrDefault(s, "aggression", 30), 10),
   stress |-> Clamp(OrDefault(s, "stress", 25), 10),
   tension |-> Clamp(OrDefault(s, "tension", 20), 10),
   suspect |-> Clamp(OrDefault(s, "badIntent", 25), 10),
   balance |-> Clamp(OrDefault(s, "stability", 60), 10),
   expressionRange |-> Clamp(OrDefault(s, "expressionRange", 50), 10),
   truthfulness |-> Clamp(OrDefault(s, "truthfulnessIndex", 70), 10),
   energy |-> Clamp(OrDefault(s, "psychomotorIndex", 50), 10),
   gazeStability |-> Clamp(OrDefault(s, "gazeStability", 60), 10),
   neuroticism |-> Clamp(OrDefault(s, "microTremorScore", 20), 10)]

\* AlphaEye.compute, lines 593-611: the parameters, from the values read.
Params(r) ==
  LET Blend(charm) ==
        [aggression |-> r.aggression, stress |-> r.stress, tension |-> r.tension,
         suspect |-> r.suspect, balance |-> r.balance, charm |-> charm,
         energy |-> r.energy, selfRegulation |-> Clamp(r.balance + charm, 2),
         inhibition |-> Clamp(100 - r.gazeStability, 1), neuroticism |-> r.neuroticism]
  IN Blend(Clamp(6 * r.truthfulness + 4 * r.expressionRange, 10))

\* AlphaEye.compute, lines 620-639: the derived fields, and the profile.
Profile(r, params) ==
  [params |-> params,
   emotionalVariation |-> ComputeEmotionalVariation(params),
   vitalityIndex |-> ComputeVitality(params.energy, params.stress, params.neuroticism),
   concentrationIndex |->
     ComputeConcentration(r.gazeStability, params.inhibition, params.stress),
   stateOfMind |-> ClassifyStateOfMind(params)]

\* AlphaEye.compute(threat, deception, neuro, vsa), s holding the fields of the
\* four arguments.
Compute(s) == Profile(Read(s), Params(Read(s)))

\* The `states` array of getDominantState.
DominantCandidates(p) ==
  << [key |-> "high-stress", score |-> p.stress],
     [key |-> "high-tension", score |-> p.tension],
     [key |-> "high-aggression", score |-> p.aggression],
     [key |-> "low-energy", score |-> 100 - p.energy],
     [key |-> "low-balance", score |-> 100 - p.balance] >>

\* An insertion that puts x before the elements of its score.
RECURSIVE InsertBeforeEqual(_, _)
InsertBeforeEqual(x, sorted) ==
  IF sorted = << >> THEN << x >>
  ELSE IF Head(sorted).score > x.score
         THEN << Head(sorted) >> \o InsertBeforeEqual(x, Tail(sorted))
         ELSE << x >> \o sorted

\* states.sort((a, b) => b.score - a.score) is stable: x, which came after the
\* elements of `sorted`, goes after those of its score.
RECURSIVE InsertDescending(_, _)
InsertDescending(x, sorted) ==
  IF sorted = << >> THEN << x >>
  ELSE IF Head(sorted).score >= x.score
         THEN << Head(sorted) >> \o InsertDescending(x, Tail(sorted))
         ELSE << x >> \o sorted

RECURSIVE SortDescending(_, _)
SortDescending(states, sorted) ==
  IF states = << >> THEN sorted
  ELSE SortDescending(Tail(states), InsertDescending(Head(states), sorted))

\* A getDominantState that takes the first candidate without sorting.
GetFirstCandidate(p) ==
  LET top == DominantCandidates(p)[1] IN
  IF top.score < 40 THEN "balanced" ELSE top.key

\* getDominantState(params)
GetDominantState(p) ==
  LET top == SortDescending(DominantCandidates(p), << >>)[1] IN
  IF top.score < 40 THEN "balanced" ELSE top.key

\* completeScan: the engines report (src/unnamed/part_000, lines 306-313).
TakeSnapshot(snapshots) ==
  /\ fusePhase = "idle"
  /\ fusePhase' = "analysed"
  /\ \E s \in snapshots : snapshot' = s
  /\ UNCHANGED << alphaProfile, dominantState, reopenedProfile, orchVars, chatVars, sendVars >>

\* completeScan: lastProfile = AlphaEye.compute(...) (line 316).
ComputeProfile ==
  /\ fusePhase = "analysed"
  /\ fusePhase' = "computed"
  /\ alphaProfile' = Compute(snapshot)
  /\ UNCHANGED << snapshot, dominantState, reopenedProfile, orchVars, chatVars, sendVars >>

\* completeScan: AlphaEye.getDominantState(lastProfile.params) (line 323).
ClassifyDominantState ==
  /\ fusePhase = "computed"
  /\ fusePhase' = "classified"
  /\ dominantState' = GetDominantState(alphaProfile.params)
  /\ UNCHANGED << snapshot, alphaProfile, reopenedProfile, orchVars, chatVars, sendVars >>

\* The entry completeScan puts in the history for a profile (lines 319-324).
HistoryEntry(profile) == [params |-> profile.params, stateOfMind |-> profile.stateOfMind]

\* A reconstruction that stops at the object literal of lines 977-988, with its
\* placeholders for the two indices.
RebuildPlaceholders(scan) ==
  [params |-> scan.params,
   stateOfMind |-> scan.stateOfMind,
   vitalityIndex |-> 0,
   concentrationIndex |-> 50,
   emotionalVariation |-> ComputeEmotionalVariation(scan.params)]

\* The profile the click on a history item rebuilds from the entry `scan`
\* (src/unnamed/part_000, lines 977-991; src/js/ollama.js, lines 1160-1171).
Rebuild(scan) ==
  [params |-> scan.params,
   stateOfMind |-> scan.stateOfMind,
   vitalityIndex |->
     ComputeVitality(scan.params.energy, scan.params.stress, scan.params.neuroticism),
   concentrationIndex |->
     ComputeConcentration(100 - scan.params.inhibition, scan.params.inhibition,
                          scan.params.stress),
   emotionalVariation |-> ComputeEmotionalVariation(scan.params)]

\* A click on the history item of the scan.
HistoryItemClick ==
  /\ fusePhase = "classified"
  /\ fusePhase' = "reopened"
  /\ reopenedProfile' = Rebuild(HistoryEntry(alphaProfile))
  /\ UNCHANGED << snapshot, alphaProfile, dominantState, orchVars, chatVars, sendVars >>

FusionNext ==
  \/ TakeSnapshot(Snapshots)
  \/ ComputeProfile
  \/ ClassifyDominantState
  \/ HistoryItemClick

FusionSpec == Init /\ [][FusionNext]_vars

\* ================================================================ claims
\* The completeScan runs of a step, in either specification.
CompleteScanStep == \E outcome \in AnalysisOutcomes : CompleteScan(outcome)

FailedCompleteScanStep == \E outcome \in AnalysisOutcomes \ {"ok"} : CompleteScan(outcome)

\* The scan button is pressed while the state is Scanning.
StartRequestWhileScanning ==
  /\ appState = "scanning"
  /\ BtnScanClick

\* C1: duplicate start triggers start the scan once: each device is acquired at
\* most once, and at most one countdown timer and one capture loop are active.
C1_DuplicateStartStartsOnce ==
  /\ liveCam.scan <= 1
  /\ liveMic <= 1
  /\ activeTimers <= 1
  /\ CaptureLoops <= 1

C3_ScanAndMonitoringExclude ==
  ~(isScanning /\ monIntervals > 0 /\ cameraStream # "null")

\* C4: startScan() invoked in Idle, LoadingModels or Analyzing requests no device,
\* starts no countdown or capture loop and leaves the state unchanged.
C4_StartIsNoOpUnlessReadyOrResults ==
  [][(appState \in {"idle", "loading_models", "analyzing"} /\ StartScanCall) =>
       UNCHANGED << appState, pendingStart, cameraStream, liveCam, audioStream, liveMic,
                    scanTimer, activeTimers, detecting, rafPending >>]_vars

\* C5: every change of appState is one of the claimed transitions; Results is
\* entered only from Analyzing, and nothing leaves LoadingModels after a failed load.
ClaimedTransitions ==
  { << "idle", "loading_models" >>, << "loading_models", "ready" >>,
    << "ready", "scanning" >>, << "scanning", "ready" >>,
    << "scanning", "analyzing" >>, << "analyzing", "results" >>,
    << "analyzing", "ready" >>, << "results", "scanning" >> }

C5_OnlyClaimedTransitions ==
  /\ \A i \in 2..(Len(stateTrail) - 1) :
       stateTrail[i] # stateTrail[i + 1] =>
         << stateTrail[i], stateTrail[i + 1] >> \in ClaimedTransitions
  /\ loadModels = "failed" => appState = "loading_models"

\* C6: a failing analysis block ends in Ready with both devices released, and
\* neither the persisted nor the in-memory history gains an entry.
C6_FailedAnalysisLeavesHistory ==
  [][FailedCompleteScanStep =>
       /\ appState' = "ready"
       /\ cameraStream' = "null"
       /\ ~audioStream'
       /\ scanHistory' = scanHistory
       /\ historyStore' = historyStore]_vars

\* C7: when a session leaves Scanning for Ready or Results, every camera and
\* microphone stream acquired for a scan has been released.
C7_SessionEndReleasesDevices ==
  [][(appState = "scanning" /\ appState' \in {"ready", "results"}) =>
       /\ liveCam'.scan = 0
       /\ liveMic' = 0]_vars

\* C8: stopScan() while Scanning returns to Ready, clears the countdown, releases
\* camera and microphone and leaves lastProfile and the history alone; and
\* completeScan does not run for a session that was stopped.
C8_StopRunsNoFusion ==
  [][/\ StartRequestWhileScanning =>
          /\ appState' = "ready"
          /\ ~scanTimer'
          /\ cameraStream' = "null"
          /\ ~audioStream'
          /\ UNCHANGED << lastProfile, scanHistory, historyStore >>
     /\ sessionEnd = "stopped" => ~CompleteScanStep]_vars

\* C9: after n scans completed successfully since the history was empty, with no
\* failed analysis in between, the persisted history holds exactly min(n, 10)
\* entries: the most recent scans, newest first.
C9_PersistedHistoryIsLastTen ==
  ~tainted =>
    historyStore = [i \in 1..Min(okScans, HistoryCap) |-> scanSeq - i + 1]

\* C9 witness: eleven scans completed; ten are persisted, the newest first.
C9_Witness ==
  /\ ~tainted
  /\ okScans = HistoryCap + 1
  /\ Len(historyStore) = HistoryCap
  /\ historyStore[1] = scanSeq
  /\ historyStore[HistoryCap] = scanSeq - HistoryCap + 1

\* C10: the in-memory history never holds more than 10 entries.
C10_MemoryHistoryCapped == Len(scanHistory) <= HistoryCap

\* C11: in the avatar orchestrator, whenever the monitoring interval is active a
\* camera stream is held and the microphone is not.
C11_MonitoringHoldsCamera ==
  chatMonitorInterval => (cameraStream # "null" /\ ~audioStream)

\* The tabs that are not a monitoring context (panelChat in the state-machine
\* orchestrator, panelHome in the avatar orchestrator).
OtherTabs == (Tabs \cup AvatarTabs) \ {"panelChat", "panelHome"}

\* C12: while the tab last clicked is not the monitoring tab, no monitoring interval
\* runs and no camera stream obtained for monitoring is live.
C12_MonitoringStoppedOutsideContext ==
  activeTab \in OtherTabs => (monIntervals = 0 /\ liveCam.monitor = 0)
\* C13: startCamera or startMicrophone called while the device is held requests no
\* second stream.
C13_AcquireIsIdempotent ==
  [][/\ cameraStream # "null" =>
          /\ pendingStart'.camera <= pendingStart.camera
          /\ pendingMon'.camera <= pendingMon.camera
     /\ audioStream => pendingStart'.mic <= pendingStart.mic]_vars

\* The camera acquisition of a start request fails: permission denied, or playback
\* fails after the stream was obtained.
CameraFails == ScanCameraResolve(FALSE) \/ ScanPlayResolve(FALSE)

\* C14: when the camera acquisition of a start request fails, the state is
\* unchanged, the microphone is not requested, no countdown or capture loop starts,
\* and (for a start request on its own) no camera stream is held afterwards.
C14_CameraFailureAborts ==
  [][CameraFails =>
       /\ appState' = appState
       /\ pendingStart'.mic = pendingStart.mic
       /\ UNCHANGED << audioStream, liveMic, scanTimer, activeTimers, detecting, rafPending >>
       /\ PendingStartTotal = 1 => (cameraStream' # "scan" /\ liveCam'.scan = 0)]_vars

RECURSIVE TokensOf(_)
TokensOf(ls) ==
  IF ls = << >> THEN << >>
  ELSE LineTokens(Head(ls)) \o (IF LineReturns(Head(ls)) THEN << >> ELSE TokensOf(Tail(ls)))

WholeLines(body) == SubSeq(Split(body), 1, Len(Split(body)) - 1)

UnsplitTokens(body) == TokensOf(WholeLines(body))

UnsplitEnd(body) ==
  IF \E n \in 1..Len(WholeLines(body)) : LineReturns(WholeLines(body)[n]) THEN "done" ELSE "eof"

\* C16: however the body is cut into chunks, a chat() that has ended has yielded
\* the tokens of the uncut body, and ended for the same reason.
C16_ChunkingIsInvisible ==
  \A i \in Streams :
    chatState[i] = "ended" =>
      /\ yielded[i] = UnsplitTokens(response[i])
      /\ endedBy[i] = UnsplitEnd(response[i])

\* C16 witness: a body of three records, cut inside a record, has been read to the
\* record with the completion flag.
C16_Witness ==
  /\ chatState[1] = "ended"
  /\ endedBy[1] = "done"
  /\ splitInside[1]
  /\ yielded[1] = << << "a" >>, << "b" >>, << "a" >> >>
\* C20: the line with the completion flag yields its token, if it has one, and ends
\* chat(); once ended, chat() yields nothing more, whatever is left of the chunk and
\* of the buffer.
C20_CompletionFlagEnds ==
  [][\A i \in Streams :
       /\ (chatState[i] = "lines" /\ lines'[i] # lines[i] /\ LineReturns(Head(lines[i]))) =>
            /\ chatState'[i] = "ended"
            /\ yielded'[i] = yielded[i] \o LineTokens(Head(lines[i]))
       /\ chatState[i] = "ended" =>
            /\ chatState'[i] = "ended"
            /\ yielded'[i] = yielded[i]]_vars

\* C20 witness: chat() ended at a record with a token and the completion flag, with a
\* later record of the same chunk and a partial line left over.
C20_Witness ==
  /\ chatState[1] = "ended"
  /\ endedBy[1] = "done"
  /\ yielded[1] = << << "a" >> >>
  /\ response[1][3] = "d"
  /\ lines[1] = << << "{", "b", "}" >> >>
  /\ buffer[1] = << "{", "a" >>
\* C17: chat() never raises an AbortError to its consumer: after abort() the
\* sequence just ends.
C17_AbortEndsWithoutRaising ==
  \A i \in Streams : chatState[i] = "raised" => chatError[i].name # "AbortError"

\* C18: at most one chat request is outstanding, and abort() aborts the signal of
\* every outstanding request.
C18_OneRequestAbortCancelsAll ==
  [][/\ Cardinality(Outstanding') <= 1
     /\ Abort => \A i \in Outstanding : signalAborted'[i]]_vars

\* The part of the body that reader.read() has delivered.
Consumed(i) == SubSeq(response[i], 1, Len(response[i]) - Len(rest[i]))

\* C19: once abort() has been called on a stream in flight, no further chunk of it
\* is read; what is yielded afterwards extends what was yielded, in order; and the
\* buffer holds exactly the text delivered since the last line break.
C19_CancelAtChunkBoundary ==
  [][\A i \in Streams :
       /\ abortSeen[i] >= 0 => rest'[i] = rest[i]
       /\ chatState[i] # "idle" =>
            SubSeq(yielded'[i], 1, Len(yielded[i])) = yielded[i]
       /\ buffer'[i] = Pop(Split(Consumed(i)'))]_vars

\* The body with every whole line that is not a valid record taken out.
WithoutMalformed(body) ==
  JoinLines(SelectSeq(WholeLines(body), WellFormed)) \o Pop(Split(body))

\* C21: a line that is not a valid record is skipped: chat() does not fail on it,
\* and a chat() that has ended has yielded the tokens of the body without its
\* malformed lines, and ended for the same reason.
C21_MalformedLinesAreSkipped ==
  \A i \in Streams :
    /\ chatState[i] # "raised"
    /\ chatState[i] = "ended" =>
         /\ yielded[i] = UnsplitTokens(WithoutMalformed(response[i]))
         /\ endedBy[i] = UnsplitEnd(WithoutMalformed(response[i]))

\* C21 witness: a truncated record between two records with a token; both tokens
\* have been yielded and the reader has reported the end of the body.
C21_Witness ==
  /\ chatState[1] = "ended"
  /\ endedBy[1] = "eof"
  /\ response[1] = JoinLines(<< << "{", "a", "}" >>, << "{", "a" >>, << "{", "b", "}" >> >>)
  /\ yielded[1] = << << "a" >>, << "b" >> >>

\* C22: the request chat() builds carries the system prompt as its first message,
\* followed by exactly the last min(6, n) of the n turns of the conversation, in
\* their order (without a system prompt, by those turns alone); building it leaves
\* the conversation as it was.
C22_RequestIsPromptAndLastSix ==
  [][\A i \in Streams :
       request'[i] # request[i] =>
         LET n == Len(chatMessages)
             k == Min(6, n)
             first == IF systemPrompt[i] # "" THEN 1 ELSE 0
         IN
         /\ first = 1 => request'[i][1] = Message("system", systemPrompt[i], 0)
         /\ Len(request'[i]) = first + k
         /\ \A j \in 1..k : request'[i][first + j] = chatMessages[n - k + j]
         /\ chatMessages' = chatMessages]_vars

\* C22 witness: a request built from a conversation of seven turns: the system
\* prompt, then the second to the seventh turn.
C22_Witness ==
  /\ Len(chatMessages) = 7
  /\ Len(request[1]) = 7
  /\ request[1][1].role = "system"
  /\ request[1][2] = chatMessages[2]
  /\ request[1][7] = chatMessages[7]

\* C23: when the response has a status outside 200..299, chat() raises an error
\* that carries the status and is not an AbortError, having yielded no token and
\* read nothing of the body; a chat() that has raised does nothing more: no second
\* request, no read, no token.
C23_HttpErrorRaisesWithStatus ==
  [][\A i \in Streams :
       /\ (respStatus'[i] # respStatus[i] /\ respStatus'[i] \notin 200..299) =>
            /\ chatState'[i] = "raised"
            /\ chatError'[i].status = respStatus'[i]
            /\ chatError'[i].name \notin {"none", "AbortError"}
            /\ yielded'[i] = << >>
            /\ rest'[i] = response'[i]
       /\ chatState[i] = "raised" =>
            /\ chatState'[i] = "raised"
            /\ chatError'[i] = chatError[i]
            /\ request'[i] = request[i]
            /\ rest'[i] = rest[i]
            /\ yielded'[i] = yielded[i]]_vars

\* C23 witness: the server answered 404 to the first request; chat() has raised
\* the error with that status, the body unread.
C23_Witness ==
  /\ respStatus[1] = 404
  /\ chatState[1] = "raised"
  /\ chatError[1] = ErrorOf("Error", 404)
  /\ rest[1] = response[1]
  /\ response[1] # << >>

\* C24: chat() is driven by its consumer: calling it issues no request, the first
\* pull does; a step delivers at most one token; the lines of a chunk are processed
\* one at a time in their order, each token delivered in the step that processes
\* its record; and the next chunk is read only when every line of the chunks read
\* so far has been processed.
C24_ChatIsPullDriven ==
  [][\A i \in Streams :
       /\ chatState'[i] \in {"idle", "created"} =>
            /\ request'[i] = << >>
            /\ respStatus'[i] = 0
            /\ rest'[i] = << >>
       /\ Len(yielded'[i]) <= Len(yielded[i]) + 1
       /\ (chatState[i] = "lines" /\ lines'[i] # lines[i]) =>
            /\ lines'[i] = Tail(lines[i])
            /\ yielded'[i] = yielded[i] \o LineTokens(Head(lines[i]))
       /\ (chatState[i] # "created" /\ rest'[i] # rest[i]) =>
            /\ lines[i] = << >>
            /\ yielded'[i] = yielded[i]]_vars

\* C24 witness: a chunk with two records has been read; the token of the first has
\* been delivered, the second record waits for the next pull, and more of the body
\* waits to be read.
C24_Witness ==
  /\ chatState[1] = "lines"
  /\ Len(yielded[1]) = 1
  /\ Len(lines[1]) = 1
  /\ LineTokens(lines[1][1]) # << >>
  /\ rest[1] # << >>

\* The ten primary parameters of a profile.
ParamNames ==
  { "aggression", "stress", "tension", "suspect", "balance", "charm", "energy",
    "selfRegulation", "inhibition", "neuroticism" }

\* C25: AlphaEye.compute returns the ten primary parameters in 0..100, a
\* concentrationIndex in 0..100, a vitalityIndex in -100..100, an
\* emotionalVariation.score in 0..100 and a stateOfMind.pleasure in 0..100.
C25_ProfileIsInRange ==
  fusePhase \in {"computed", "classified"} =>
    /\ \A name \in ParamNames : alphaProfile.params[name] \in 0..100
    /\ alphaProfile.concentrationIndex \in 0..100
    /\ alphaProfile.vitalityIndex \in -100..100
    /\ alphaProfile.emotionalVariation.score \in 0..100
    /\ alphaProfile.stateOfMind.pleasure \in 0..100

\* C25 witness: a profile computed from an aggression of 150, a stability of -5 and
\* a stress of 70.5: the parameters are 100, 0 and 71.
C25_Witness ==
  /\ fusePhase = "computed"
  /\ DOMAIN snapshot = {"aggression", "stability", "stress"}
  /\ snapshot["aggression"] = 1500
  /\ snapshot["stability"] = -50
  /\ snapshot["stress"] = 705
  /\ alphaProfile.params.aggression = 100
  /\ alphaProfile.params.balance = 0
  /\ alphaProfile.params.stress = 71

\* The five scores getDominantState compares, in the order of their labels.
DominantLabels ==
  << "high-stress", "high-tension", "high-aggression", "low-energy", "low-balance" >>

DominantScores ==
  LET p == alphaProfile.params IN
  << p.stress, p.tension, p.aggression, 100 - p.energy, 100 - p.balance >>

\* C26: getDominantState returns "balanced" when the five scores are all below 40,
\* and otherwise the label of the greatest score, the first in the order
\* high-stress, high-tension, high-aggression, low-energy, low-balance among equals.
C26_DominantIsFirstGreatest ==
  fusePhase = "classified" =>
    IF \A i \in 1..5 : DominantScores[i] < 40
      THEN dominantState = "balanced"
      ELSE \E i \in 1..5 :
             /\ dominantState = DominantLabels[i]
             /\ \A j \in 1..5 : DominantScores[j] <= DominantScores[i]
             /\ \A j \in 1..(i - 1) : DominantScores[j] < DominantScores[i]

\* C26 witness: stress and aggression share the greatest score, 80, and the
\* dominant state is high-stress.
C26_Witness ==
  /\ fusePhase = "classified"
  /\ DominantScores[1] = 80
  /\ DominantScores[3] = 80
  /\ \A j \in 1..5 : DominantScores[j] <= 80
  /\ dominantState = "high-stress"

\* C27 as claimed: the threat snapshot {aggression: 80, stress: 70, tension: 60,
\* badIntent: 50, stability: 20}, the rest absent, gives a balance of 20, the
\* label Unstable and the dominant state high-stress.
C27_ThreatExampleIsHighStress ==
  (fusePhase = "classified" /\ snapshot = ThreatExample) =>
    /\ alphaProfile.params.balance = 20
    /\ alphaProfile.emotionalVariation.label = "Unstable"
    /\ dominantState = "high-stress"

\* C27: the threat snapshot {aggression: 80, stress: 70, tension: 60, badIntent: 50,
\* stability: 20}, the rest absent, gives a balance of 20, the label Unstable and
\* the dominant state high-aggression: the scores are 70, 60, 80, 50 and 80, and
\* high-aggression is the first label with the greatest.
C27_ThreatExampleIsHighAggression ==
  (fusePhase = "classified" /\ snapshot = ThreatExample) =>
    /\ alphaProfile.params.balance = 20
    /\ alphaProfile.emotionalVariation.label = "Unstable"
    /\ DominantScores = << 70, 60, 80, 50, 80 >>
    /\ dominantState = "high-aggression"

\* C27 witness: the threat snapshot has been profiled and classified; its
\* emotional variation score is 46.
C27_Witness ==
  /\ fusePhase = "classified"
  /\ snapshot = ThreatExample
  /\ alphaProfile.emotionalVariation.score = 46

\* C28: with every field absent the dominant state is balanced and the quadrant
\* is Calm & Content.
C28_DefaultsAreBalanced ==
  (fusePhase = "classified" /\ DOMAIN snapshot = {}) =>
    /\ dominantState = "balanced"
    /\ alphaProfile.stateOfMind.quadrant = "Calm & Content"

\* The field each directly read parameter is read from, and its default.
DirectParams ==
  { << "aggression", "aggression", 30 >>, << "stress", "stress", 25 >>,
    << "tension", "tension", 20 >>, << "suspect", "badIntent", 25 >>,
    << "balance", "stability", 60 >>, << "energy", "psychomotorIndex", 50 >>,
    << "neuroticism", "microTremorScore", 20 >> }

\* C29: each directly read parameter is its field, rounded and clamped to 0..100,
\* whenever the field is present, a field of 0 included, and its default only when
\* the field is absent.
C29_PresentFieldIsUsed ==
  fusePhase \in {"computed", "classified"} =>
    \A d \in DirectParams :
      alphaProfile.params[d[1]] =
        IF d[2] \in DOMAIN snapshot
          THEN Max(0, Min(100, (snapshot[d[2]] + 5) \div 10))
          ELSE d[3]

\* C30: while Scanning, a tick of the capture loop whose detection is empty or
\* fails forwards nothing to the engines, leaves frameCount and the state as they
\* were, and asks for the next animation frame, so that another tick follows.
C30_MissedFrameIsSkipped ==
  [][(/\ detecting' = detecting - 1
      /\ Len(stateTrail') = 2
      /\ stateTrail'[1] = "none"
      /\ appState = "scanning"
      /\ isScanning) =>
        /\ stateTrail'[2] = "nothing"
        /\ frameCount' = frameCount
        /\ appState' = "scanning"
        /\ isScanning'
        /\ rafPending' = rafPending + 1]_vars

\* C30 witness: a tick during a scan had no detection: nothing was forwarded, no frame
\* was counted and the next animation frame is requested.
C30_Witness ==
  /\ appState = "scanning"
  /\ isScanning
  /\ stateTrail = << "none", "nothing" >>
  /\ frameCount = 0
  /\ detecting = 0
  /\ rafPending = 1

\* C31: the capture loop of a session that has left Scanning makes no further
\* tick: when a session enters Scanning, with no stream left over from overlapping
\* starts, the loop started for it is the only one with a detection in flight or an
\* animation frame requested.
C31_EndedLoopTicksNoMore ==
  [][(/\ appState # "scanning"
      /\ appState' = "scanning"
      /\ CamOrphans' = 0
      /\ MicOrphans' = 0) => CaptureLoops' = 1]_vars

\* C32: a tick of the capture loop forwards a detection to the engines, and counts
\* a frame, only while the session is Scanning.
C32_ForwardsOnlyWhileScanning ==
  [][(/\ detecting' = detecting - 1
      /\ Len(stateTrail') = 2
      /\ (stateTrail'[2] # "nothing" \/ frameCount' # frameCount)) =>
        /\ appState = "scanning"
        /\ isScanning]_vars

\* C33: while the session is Scanning a camera stream is held.
C33_ScanningHoldsCamera ==
  (appState = "scanning" /\ isScanning) => (cameraStream # "null" /\ liveCam.scan + liveCam.monitor > 0)

\* C34: a scan start leads to at most one run of completeScan: a session that is
\* not Scanning has no active countdown timer, and completeScan runs only from
\* Scanning.
C34_CompletesOncePerStart ==
  [][/\ appState' # "scanning" => activeTimers' = 0
     /\ (stateTrail' # << >> /\ stateTrail'[1] = "completeScan") =>
          /\ appState = "scanning"
          /\ isScanning]_vars

\* Four times the variance of the four negative parameters, times four: the
\* square of 4 * sigma, an integer.
NegativeSpread(p) ==
  4 * (p.aggression * p.aggression + p.stress * p.stress
       + p.tension * p.tension + p.neuroticism * p.neuroticism)
  - (p.aggression + p.stress + p.tension + p.neuroticism)
    * (p.aggression + p.stress + p.tension + p.neuroticism)

\* C35: emotionalVariation.score is 2 * sigma rounded to the nearest integer
\* (score - 1/2 <= 2 * sigma < score + 1/2, sigma the population standard
\* deviation of aggression, stress, tension, neuroticism), and the label is
\* 'Unstable' iff score > 30, 'Moderate' iff 15 < score <= 30, 'Stable' iff
\* score <= 15.
C35_VariationIsTwiceSigma ==
  fusePhase \in {"computed", "classified"} =>
    LET ev == alphaProfile.emotionalVariation
        D == NegativeSpread(alphaProfile.params) IN
    /\ ev.score \in 0..100
    /\ ev.score = 0 \/ (2 * ev.score - 1) * (2 * ev.score - 1) <= D
    /\ D < (2 * ev.score + 1) * (2 * ev.score + 1)
    /\ ev.label \in {"Unstable", "Moderate", "Stable"}
    /\ ev.label = "Unstable" <=> ev.score > 30
    /\ ev.label = "Moderate" <=> (15 < ev.score /\ ev.score <= 30)
    /\ ev.label = "Stable" <=> ev.score <= 15

\* A profile of moderate variation whose 2 * sigma is not an integer.
C35_Witness ==
  /\ fusePhase = "computed"
  /\ alphaProfile.emotionalVariation.label = "Moderate"
  /\ \A k \in 0..200 : k * k # NegativeSpread(alphaProfile.params)

\* C36: the state of mind has stability = balance and pleasure =
\* 100 - (stress + tension) / 2 rounded to the nearest integer, halves up, and
\* exactly the quadrant of the two comparisons with 50.
C36_StateOfMindQuadrant ==
  fusePhase \in {"computed", "classified"} =>
    LET sm == alphaProfile.stateOfMind
        p == alphaProfile.params IN
    /\ sm.stability = p.balance
    /\ 2 * sm.pleasure - 1 <= 200 - (p.stress + p.tension)
    /\ 200 - (p.stress + p.tension) <= 2 * sm.pleasure
    /\ sm.quadrant \in {"Calm & Content", "Excited & Active", "Bored & Low",
                         "Distressed & Anxious"}
    /\ sm.quadrant = "Calm & Content" <=> (sm.stability >= 50 /\ sm.pleasure >= 50)
    /\ sm.quadrant = "Excited & Active" <=> (sm.stability < 50 /\ sm.pleasure >= 50)
    /\ sm.quadrant = "Bored & Low" <=> (sm.stability >= 50 /\ sm.pleasure < 50)
    /\ sm.quadrant = "Distressed & Anxious" <=> (sm.stability < 50 /\ sm.pleasure < 50)

\* An unstable and pleased profile whose pleasure is a half rounded up.
C36_Witness ==
  /\ fusePhase = "computed"
  /\ alphaProfile.stateOfMind.quadrant = "Excited & Active"
  /\ (alphaProfile.params.stress + alphaProfile.params.tension) % 2 = 1

\* C37: after a testConnection call has returned, connected equals what it
\* returned, and sendMessage goes to the stream without a probe only when the
\* call that returned last returned true.
C37_ConnectedIsLastProbe ==
  [][/\ lastProbe' # "none" => (connected' <=> lastProbe' = "true")
     /\ \A i \in Streams :
          (sendState[i] = "idle" /\ sendState'[i] = "streaming") => lastProbe = "true"]_vars

\* The positions of the assistant turns of a conversation.
AssistantTurns(messages) == { k \in DOMAIN messages : messages[k].role = "assistant" }

\* C38: the conversation grows by appending only; there is one assistant turn for
\* each sendMessage call whose stream ended normally and that has resumed, its
\* content the tokens the stream yielded, concatenated in yield order (a token
\* of ConversationResponses is one character); a call whose stream raised (a
\* failure, or an abort) appends nothing.
C38_LogGrowsByAnswers ==
  [][/\ Len(chatMessages') >= Len(chatMessages)
     /\ SubSeq(chatMessages', 1, Len(chatMessages)) = chatMessages
     /\ Cardinality(AssistantTurns(chatMessages'))
          = Cardinality({ i \in Streams : sendState'[i] = "answered" })
     /\ Cardinality(AssistantTurns(chatMessages'))
          <= Cardinality({ i \in Streams : chatState'[i] = "ended" })
     /\ \A i \in Streams :
          /\ sendState'[i] = "answered" =>
               \E k \in AssistantTurns(chatMessages') :
                 /\ Len(chatMessages'[k].content) = Len(yielded'[i])
                 /\ \A n \in 1..Len(yielded'[i]) :
                      chatMessages'[k].content[n] = yielded'[i][n][1]
          /\ (chatState[i] = "raised" /\ sendState'[i] # sendState[i]) =>
               chatMessages' = chatMessages]_vars

\* One call has been answered with two tokens, and the stream of the other was
\* aborted after its first token.
C38_Witness ==
  \E i, j \in Streams :
    /\ sendState[i] = "answered"
    /\ Len(yielded[i]) = 2
    /\ sendState[j] = "failed"
    /\ Len(yielded[j]) = 1
    /\ chatError[j].name = "AbortError"
    /\ Len(chatMessages) = 3

\* C39: the profile rebuilt from the history entry of a scan has the
\* vitalityIndex, the concentrationIndex and the emotionalVariation of the
\* profile AlphaEye.compute returned for that scan.
C39_ReopenedIndicesAreTheOriginal ==
  fusePhase = "reopened" =>
    /\ reopenedProfile.vitalityIndex = alphaProfile.vitalityIndex
    /\ reopenedProfile.concentrationIndex = alphaProfile.concentrationIndex
    /\ reopenedProfile.emotionalVariation = alphaProfile.emotionalVariation

\* A reopened scan whose gaze stability was reported as 70.5, and whose indices
\* are not the placeholders.
C39_Witness ==
  /\ fusePhase = "reopened"
  /\ "gazeStability" \in DOMAIN snapshot
  /\ snapshot["gazeStability"] = 705
  /\ reopenedProfile.vitalityIndex # 0
  /\ reopenedProfile.concentrationIndex # 50
====
